---- MODULE Spec2Model ----
(***************************************************************************)
(* Key pool of the KeyFlow proxy (internal/keypool/provider.go): the       *)
(* database rows of the API keys, their hot-cache projection (one hash per *)
(* key and the per-group active_keys list), the background status reports  *)
(* (UpdateStatus -> handleSuccess / handleFailure), the bulk operations    *)
(* (AddKeys, RemoveKeys, RestoreKeys, RestoreMultipleKeys,                 *)
(* removeKeysByStatus), the weight operations, key selection (SelectKey)   *)
(* and the cache-hit affinity around it (SelectKeyWithCacheHit,            *)
(* AdjustKeyWeightAsync, cache_hit.go), and the bulk add of                *)
(* internal/services/key_service.go.                                       *)
(*                                                                         *)
(* Every store call and every database statement of a handler is one step, *)
(* so that handlers interleave the way goroutines do.  A database          *)
(* transaction buffers its writes and applies them at its commit step;     *)
(* rows it has written or selected FOR UPDATE stay locked until then.      *)
(* One group is modelled; every key belongs to it.                         *)
(***************************************************************************)
EXTENDS Integers, Sequences, FiniteSets, TLC

\* ---------------------------------------------------------------- bounds
NKeys == 2          \* key ids 1..NKeys are ever created
NReporters == 2     \* UpdateStatus goroutines that may run at the same time
MaxReports == 2     \* UpdateStatus calls in one behaviour
MaxAdminOps == 1    \* bulk operations in one behaviour
MaxThreshold == 2   \* largest blacklist_threshold of the group
MaxSelects == 2     \* SelectKey calls in one behaviour
MaxRequests == 1    \* inbound proxy requests in one behaviour
MaxRetries == 1     \* max_retries of the group
MaxMsgs == 5        \* most messages in a request body
NAdjusters == 2     \* AdjustKeyWeightAsync goroutines alive at the same time
MaxAdds == 2        \* bulk adds whose duplicate check and insert are apart

\* ------------------------------------------------------ program constants
DefaultWeight == 500
MaxWeight == 1000
MinCacheHitSize == 4096     \* messages must serialize to more bytes than this
MinCacheHitMessages == 3

KeyIds == 1..NKeys
Values == 1..NKeys                 \* key strings; Hash is injective on them
Reporters == 1..NReporters
Msgs == {"upstream 500", "context canceled"}
None == 0

StatusActive == "active"
StatusInvalid == "invalid"

\* ------------------------------------------------------------- helpers
Range(s) == {s[i] : i \in 1..Len(s)}

Min(S) == CHOOSE x \in S : \A y \in S : x <= y

RECURSIVE SortedSeq(_)
SortedSeq(S) == IF S = {} THEN << >>
                ELSE <<Min(S)>> \o SortedSeq(S \ {Min(S)})

Count(s, x) == Cardinality({i \in 1..Len(s) : s[i] = x})

\* ---------------------------------------------------------------- store
\* store.Store list and hash primitives (spec 4.1)
LRem(list, id) == SelectSeq(list, LAMBDA x : x # id)

LPush(list, id) == <<id>> \o list

Rotate_DropsHead(list) == Tail(list)
Rotate(list) == Tail(list) \o <<Head(list)>>

NoHash == [present |-> FALSE, status |-> "", fc |-> 0, weight |-> 0, base |-> 0]

NoRow == [exists |-> FALSE, status |-> "", fc |-> 0, weight |-> 0, base |-> 0,
          hash |-> 0]

\* errors.IsUnCounted: client cancellation is not counted as a key failure
IsUnCounted(msg) == msg = "context canceled"

\* apiKeyToMap: the hash written by HSET for a key struct
apiKeyToMap(key) ==
    LET baseWeight == IF key.base <= 0 THEN DefaultWeight ELSE key.base
        weight == IF key.weight <= 0 THEN baseWeight ELSE key.weight
    IN [present |-> TRUE, status |-> key.status, fc |-> key.fc,
        weight |-> weight, base |-> baseWeight]

\* handleSuccess: nothing to do when the cached key is healthy
SuccessNoop(details) == details.fc = 0 /\ details.status = StatusActive

\* handleSuccess with the status left out of the updates map
SuccessUpdates_KeepsStatus(isActive) == [fc |-> 0, setActive |-> FALSE]

\* handleSuccess: the updates map (failure_count, and status when recovered)
SuccessUpdates(isActive) == [fc |-> 0, setActive |-> ~isActive]

\* handleFailure: the failure count written to the database
NewFailureCount(failureCount) == failureCount + 1

\* handleFailure's decision without the check that the threshold is set
ShouldBlacklist_AnyThreshold(force, blacklistThreshold, newFailureCount) ==
    force \/ newFailureCount >= blacklistThreshold

\* handleFailure: the blacklist decision
ShouldBlacklist(force, blacklistThreshold, newFailureCount) ==
    force \/ (blacklistThreshold > 0 /\ newFailureCount >= blacklistThreshold)

\* UpdateStatus without the IsUnCounted check
CountsAsFailure_Always(msg) == TRUE

\* UpdateStatus: does a failed request go to handleFailure at all
CountsAsFailure(msg) == ~IsUnCounted(msg)

\* app_errors.ErrNoActiveKeys, and the value of sel before any SelectKey
ErrNoActiveKeys == [err |-> "ErrNoActiveKeys", id |-> 0, status |-> "",
                    weight |-> 0, base |-> 0, fc |-> 0]

NoSelection == [err |-> "", id |-> 0, status |-> "", weight |-> 0, base |-> 0,
                fc |-> 0]

VARIABLES
    db,         \* committed api_keys rows, by id
    cache,      \* store hash key:{id}
    active,     \* store list group:{g}:active_keys
    lock,       \* row lock holder of each key id (None when free)
    nextId,     \* next auto-increment id of api_keys
    threshold,  \* group.EffectiveConfig.BlacklistThreshold
    rep,        \* the UpdateStatus goroutines
    adm,        \* the bulk operation in progress
    budget,     \* operations still allowed in this behaviour
    sel,        \* result of the last SelectKey
    hist,       \* per key: counted plain failure reports invoked and finished,
                \* counted failure reports since failure_count was reset
    last,       \* the report that finished last, and how it ended
    ser,        \* per key: status and failure_count of the serial execution
    hits,       \* store entries cache_hit:group:{g}:hash:{h} (key id or None)
    records,    \* p.cacheHitRecords, by hash (key id or None)
    adj,        \* the AdjustKeyWeightAsync goroutines
    sched,      \* the scheduleHashDeletion goroutines still asleep
    req,        \* the inbound request in the proxy's retry loop
    adding,     \* bulk adds between their duplicate check and AddKeys
    retry,      \* per caller: its executeTransactionWithRetry call
    outbound,   \* the upstream request of the attempt in progress
    selr,       \* per request goroutine: its SelectKey call, store call by
                \* store call
    expired,    \* hashes whose cacheHitRecord has ExpTime <= now
    sweep,      \* cleanupExpiredCacheHitEntries: its position, expiredRecords
    sync        \* syncWeightsToDatabase: its position, the keys still to
                \* visit, the weight read; changed: a weight adjustment ran
                \* during this tick

affinityVars == <<hits, records, adj, sched>>

tickerVars == <<expired, sweep, sync>>

moreVars == <<retry, outbound, selr, tickerVars>>

vars == <<db, cache, active, lock, nextId, threshold, rep, adm, budget, sel,
          hist, last, ser, affinityVars, req, adding, moreVars>>

\* tries: the loop variable i of executeTransactionWithRetry
RIdle == [pc |-> "idle", key |-> 0, ok |-> FALSE, msg |-> "", force |-> FALSE,
          fcRead |-> 0, isActive |-> FALSE, tries |-> 0]

\* no bulk operation running; err is the error the last one returned
AIdle == [op |-> "", pc |-> "idle", todo |-> << >>, matched |-> {},
          ids |-> {}, created |-> << >>, w |-> 0, err |-> ""]

ErrWeight == "weight must be between 1 and 1000"
ErrFind == "failed to find key"
ErrStore == "store error"

\* a bulk operation that returns err without a transaction left open
Failed(err) == [AIdle EXCEPT !.err = err]

\* A message of a request body as the client wrote it.  Its position in the
\* conversation stands for its text; cc says whether it carries a
\* cache_control field; clients write "role" before "content", which is not
\* the key order json.Marshal gives a map
Message(i, cc) == [cc |-> cc, text |-> i, order |-> "client"]

\* the messages of a body: n messages of the one conversation, the first of
\* them with or without a cache_control field
RECURSIVE Messages(_, _)
Messages(n, marked) ==
    IF n = 0 THEN << >>
    ELSE Append(Messages(n - 1, marked), Message(n, marked /\ n = 1))

\* stripCacheControl, for one message: a message without the field is kept
\* as its raw bytes, one with the field is unmarshalled into a map, loses the
\* field and is marshalled again, keys sorted
stripCacheControlOf(msg) ==
    IF msg.cc THEN [cc |-> FALSE, text |-> msg.text, order |-> "sorted"]
    ELSE msg

RECURSIVE stripCacheControl(_)
stripCacheControl(messages) ==
    IF messages = << >> THEN << >>
    ELSE <<stripCacheControlOf(Head(messages))>>
            \o stripCacheControl(Tail(messages))

NoPromptHash == << >>              \* the hash ""

\* CalculatePromptHash: sha256 of the marshalled messages without the last
\* dropCount ones, cache_control stripped; the digest is taken to be
\* collision free and is represented by the bytes it was computed from
CalculatePromptHash(messages, dropCount) ==
    IF dropCount >= Len(messages) \/ Len(messages) - dropCount < 1
    THEN NoPromptHash
    ELSE stripCacheControl(SubSeq(messages, 1, Len(messages) - dropCount))

\* the prompt hashes a request can register
Hashes == {CalculatePromptHash(Messages(n, marked), 2) :
              n \in MinCacheHitMessages..MaxMsgs, marked \in BOOLEAN}
Adjusters == 1..NAdjusters

AdjIdle == [pc |-> "idle", key |-> 0, delta |-> 0, weight |-> 0, base |-> 0]

ReqIdle == [pc |-> "idle", n |-> 0, size |-> 0, enable |-> FALSE,
            attempts |-> << >>]

NoReport == [key |-> 0, ok |-> FALSE, force |-> FALSE, isActive |-> FALSE,
             outcome |-> "none"]

RPid(p) == p
APid == NReporters + 1

\* ------------------------------------------------------------------ Init
\* The pool right after LoadKeysFromDB: the cache is the projection of the
\* database, the list holds the active ids.
InitRow(st, v) == [exists |-> TRUE, status |-> st,
                   fc |-> IF st = StatusInvalid THEN 1 ELSE 0,
                   weight |-> DefaultWeight, base |-> DefaultWeight, hash |-> v]

ActiveIdsOf(d) == {k \in KeyIds : d[k].exists /\ d[k].status = StatusActive}

RECURSIVE LPushAll(_, _)
LPushAll(list, ids) == IF ids = << >> THEN list
                       ELSE LPushAll(LPush(list, Head(ids)), Tail(ids))

\* ------------------------------------------------- the upstream request
\* the places of a request that can carry a credential (spec 6)
Carriers == {"Authorization", "x-api-key", "key", "access_token"}

NoCred == [scheme |-> "", owner |-> "", id |-> 0]

\* the client's proxy key as the client presents it in carrier c
ProxyCred(c) == [scheme |-> IF c = "Authorization" THEN "Bearer" ELSE "",
                 owner |-> "proxy", id |-> 0]

\* "Bearer " + apiKey.KeyValue
Bearer(apiKey) == [scheme |-> "Bearer", owner |-> "upstream", id |-> apiKey]

NoRequest == [pc |-> "none", key |-> 0, cred |-> [c \in Carriers |-> NoCred]]

\* ------------------------------------------- executeTransactionWithRetry
\* an error is the chain of messages fmt.Errorf("...: %w", err) builds; nil
\* is the empty chain
Nil == << >>
ErrLocked == <<"database is locked">>
ErrLockKey == <<"failed to lock key for update", "database is locked">>
ErrNotFound == <<"failed to lock key for update", "record not found">>
ErrHSet == <<"failed to update key details in store", "store error">>
TxErrors == {Nil, ErrLocked, ErrLockKey, ErrNotFound, ErrHSet}

\* strings.Contains(err.Error(), substr)
Contains(err, substr) == \E j \in 1..Len(err) : err[j] = substr

\* an error of the other class counted as transient
IsLocked_Any(err) == err # Nil

\* the error class that is retried
IsLocked(err) == Contains(err, "database is locked")

maxRetries == 3

\* i: the loop variable; err: the variable err; outs: what p.db.Transaction
\* has returned so far in this call; ret: the value returned
RetryIdle == [pc |-> "idle", i |-> 0, err |-> Nil, outs |-> << >>, ret |-> Nil]

\* syncWeightsToDatabase between two ticks
SyncIdle == [pc |-> "idle", keys |-> << >>, storeWeight |-> 0,
             changed |-> FALSE]

\* cleanupExpiredCacheHitEntries between two ticks
SweepIdle == [pc |-> "idle", expiredRecords |-> {}]

\* SelectKey calls: no call yet
SelIdle == [pc |-> "idle", listLen |-> 0, first |-> 0, i |-> 0, keys |-> << >>,
            rot |-> 0, picked |-> 0, res |-> NoSelection]

\* the request goroutines that select at the same time, as many as report
Selectors == 1..NReporters

\* the ids of a group with one key more than NKeys, for the rotation of
\* active_keys by concurrent SelectKey calls
RotatedIds == 1..(NKeys + 1)

\* everything but the keys: nothing is running
InitIdle ==
    /\ lock = [k \in KeyIds |-> None]
    /\ threshold \in 0..MaxThreshold
    /\ rep = [p \in Reporters |-> RIdle]
    /\ adm = AIdle
    /\ budget = [reports |-> MaxReports, admin |-> MaxAdminOps,
                 selects |-> MaxSelects, requests |-> MaxRequests,
                 adds |-> MaxAdds]
    /\ sel = NoSelection
    /\ hist = [k \in KeyIds |->
                 [pure |-> db[k].exists /\ db[k].status = StatusActive,
                  inv |-> 0, fin |-> 0, since |-> db[k].fc]]
    /\ last = NoReport
    /\ ser = [k \in KeyIds |-> [status |-> db[k].status, fc |-> db[k].fc]]
    /\ hits = [h \in Hashes |-> None]
    /\ records = [h \in Hashes |-> None]
    /\ adj = [a \in Adjusters |-> AdjIdle]
    /\ sched = {}
    /\ req = ReqIdle
    /\ adding = << >>
    /\ retry = [p \in Reporters |-> RetryIdle]
    /\ outbound = NoRequest
    /\ selr = [p \in Selectors |-> SelIdle]
    /\ expired = {}
    /\ sweep = SweepIdle
    /\ sync = SyncIdle

Init ==
    /\ \E n \in 0..NKeys :
       \E st \in [1..n -> {StatusActive, StatusInvalid}] :
          /\ db = [k \in KeyIds |-> IF k <= n THEN InitRow(st[k], k) ELSE NoRow]
          /\ nextId = n + 1
    /\ cache = [k \in KeyIds |-> IF db[k].exists THEN apiKeyToMap(db[k])
                                 ELSE NoHash]
    /\ active = LPushAll(<< >>, SortedSeq(ActiveIdsOf(db)))
    /\ InitIdle

\* a group of NKeys + 1 active keys, nothing running
InitRotate ==
    /\ db = [k \in RotatedIds |-> InitRow(StatusActive, k)]
    /\ nextId = NKeys + 2
    /\ cache = [k \in RotatedIds |-> apiKeyToMap(db[k])]
    /\ active = LPushAll(<< >>, SortedSeq(RotatedIds))
    /\ InitIdle

\* ------------------------------------------------- UpdateStatus goroutines
Created == 1..(nextId - 1)

PlainFailure(r) == ~r.ok /\ ~r.force /\ CountsAsFailure(r.msg)

\* the counted failure reports on key k that are under way
InFlight(k) ==
    Cardinality({p \in Reporters : /\ rep[p].pc # "idle" /\ rep[p].key = k
                                   /\ ~rep[p].ok
                                   /\ CountsAsFailure(rep[p].msg)})

Finish(p, outcome) ==
    LET r == rep[p] IN
    /\ rep' = [rep EXCEPT ![p] = RIdle]
    /\ last' = [key |-> r.key, ok |-> r.ok, force |-> r.force,
                isActive |-> r.isActive, outcome |-> outcome]
    /\ hist' = IF PlainFailure(r)
               THEN [hist EXCEPT ![r.key].fin = @ + 1]
               ELSE IF r.ok /\ outcome = "committed"
                    THEN [hist EXCEPT ![r.key].since = InFlight(r.key)]
                    ELSE hist

\* UpdateStatus(apiKey, group, isSuccess, errorMessage, forceDisableOnFailure):
\* spawns the goroutine and returns
UpdateStatus(p, k, ok, msg, force) ==
    /\ rep[p].pc = "idle"
    /\ budget.reports > 0
    /\ budget' = [budget EXCEPT !.reports = @ - 1]
    /\ rep' = [rep EXCEPT ![p] = [RIdle EXCEPT !.pc = "run", !.key = k,
                                   !.ok = ok, !.msg = msg, !.force = force]]
    /\ hist' = IF (~ok /\ ~force /\ CountsAsFailure(msg))
               THEN [hist EXCEPT ![k].inv = @ + 1, ![k].since = @ + 1]
               ELSE IF ~ok /\ CountsAsFailure(msg)
                    THEN [hist EXCEPT ![k].pure = FALSE, ![k].since = @ + 1]
                    ELSE IF ok \/ force THEN [hist EXCEPT ![k].pure = FALSE]
                    ELSE hist
    /\ UNCHANGED <<db, cache, active, lock, nextId, threshold, adm, sel, last,
                   ser, affinityVars, adding, moreVars>>

\* the goroutine body up to the transaction: dispatch and HGetAll
ReportRead(p) ==
    LET r == rep[p]
        keyDetails == cache[r.key]
    IN
    /\ r.pc = "run"
    /\ IF r.ok
       THEN IF SuccessNoop(keyDetails)
            THEN Finish(p, "noop")
            ELSE /\ rep' = [rep EXCEPT ![p].pc = "s_lock",
                                       ![p].fcRead = keyDetails.fc,
                                       ![p].isActive =
                                           (keyDetails.status = StatusActive)]
                 /\ UNCHANGED <<hist, last>>
       ELSE IF ~CountsAsFailure(r.msg)
            THEN Finish(p, "uncounted")
            ELSE IF keyDetails.status = StatusInvalid
                 THEN Finish(p, "noop")
                 ELSE /\ rep' = [rep EXCEPT ![p].pc = "f_lock",
                                            ![p].fcRead = keyDetails.fc]
                      /\ UNCHANGED <<hist, last>>
    /\ UNCHANGED <<db, cache, active, lock, nextId, threshold, adm, budget,
                   sel, ser, affinityVars,
                   req, adding, moreVars>>

\* tx.Set("gorm:query_option", "FOR UPDATE").First(&key, id)
ReportLock(p) ==
    LET r == rep[p] IN
    /\ r.pc \in {"s_lock", "f_lock"}
    /\ lock[r.key] = None
    /\ IF db[r.key].exists
       THEN /\ lock' = [lock EXCEPT ![r.key] = RPid(p)]
            /\ rep' = [rep EXCEPT ![p].pc =
                          IF r.pc = "s_lock" THEN "s_hset" ELSE "f_incr"]
            /\ UNCHANGED <<hist, last>>
       ELSE /\ Finish(p, "notfound") \* record not found: the report fails
            /\ UNCHANGED lock
    /\ UNCHANGED <<db, cache, active, nextId, threshold, adm, budget, sel, ser, affinityVars,
                   req, adding, moreVars>>

\* handleSuccess: store.HSet(keyHashKey, updates)
SuccessHSet(p) ==
    LET r == rep[p]
        updates == SuccessUpdates(r.isActive)
    IN
    /\ r.pc = "s_hset"
    /\ cache' = [cache EXCEPT ![r.key] =
                    [@ EXCEPT !.present = TRUE, !.fc = updates.fc,
                              !.status = IF updates.setActive
                                         THEN StatusActive ELSE @]]
    /\ rep' = [rep EXCEPT ![p].pc = IF r.isActive THEN "s_commit" ELSE "s_lrem"]
    /\ UNCHANGED <<db, active, lock, nextId, threshold, adm, budget, sel,
                   hist, last, ser, affinityVars,
                   req, adding, moreVars>>

\* handleSuccess: store.LRem(activeKeysListKey, 0, keyID)
SuccessLRem(p) ==
    /\ rep[p].pc = "s_lrem"
    /\ active' = LRem(active, rep[p].key)
    /\ rep' = [rep EXCEPT ![p].pc = "s_lpush"]
    /\ UNCHANGED <<db, cache, lock, nextId, threshold, adm, budget, sel,
                   hist, last, ser, affinityVars,
                   req, adding, moreVars>>

\* handleSuccess: store.LPush(activeKeysListKey, keyID)
SuccessLPush(p) ==
    /\ rep[p].pc = "s_lpush"
    /\ active' = LPush(active, rep[p].key)
    /\ rep' = [rep EXCEPT ![p].pc = "s_commit"]
    /\ UNCHANGED <<db, cache, lock, nextId, threshold, adm, budget, sel,
                   hist, last, ser, affinityVars,
                   req, adding, moreVars>>

\* handleSuccess: the transaction commits tx.Model(&key).Updates(updates)
SuccessCommit(p) ==
    LET r == rep[p]
        updates == SuccessUpdates(r.isActive)
    IN
    /\ r.pc = "s_commit"
    /\ db' = [db EXCEPT ![r.key] =
                 [@ EXCEPT !.fc = updates.fc,
                           !.status = IF updates.setActive
                                      THEN StatusActive ELSE @]]
    /\ ser' = [ser EXCEPT ![r.key] = [status |-> StatusActive, fc |-> 0]]
    /\ lock' = [lock EXCEPT ![r.key] = None]
    /\ Finish(p, "committed")
    /\ UNCHANGED <<cache, active, nextId, threshold, adm, budget, sel, affinityVars,
                   req, adding, moreVars>>

\* handleFailure: store.HIncrBy(keyHashKey, "failure_count", 1)
FailureHIncrBy(p) ==
    LET r == rep[p]
        newFailureCount == NewFailureCount(r.fcRead)
    IN
    /\ r.pc = "f_incr"
    /\ cache' = [cache EXCEPT ![r.key] =
                    [@ EXCEPT !.present = TRUE, !.fc = @ + 1]]
    /\ rep' = [rep EXCEPT ![p].pc =
                  IF ShouldBlacklist(r.force, threshold, newFailureCount)
                  THEN "f_lrem" ELSE "f_commit"]
    /\ UNCHANGED <<db, active, lock, nextId, threshold, adm, budget, sel,
                   hist, last, ser, affinityVars,
                   req, adding, moreVars>>

\* handleFailure: store.LRem(activeKeysListKey, 0, apiKey.ID)
FailureLRem(p) ==
    /\ rep[p].pc = "f_lrem"
    /\ active' = LRem(active, rep[p].key)
    /\ rep' = [rep EXCEPT ![p].pc = "f_hset"]
    /\ UNCHANGED <<db, cache, lock, nextId, threshold, adm, budget, sel,
                   hist, last, ser, affinityVars,
                   req, adding, moreVars>>

\* handleFailure: store.HSet(keyHashKey, {"status": invalid})
FailureHSet(p) ==
    /\ rep[p].pc = "f_hset"
    /\ cache' = [cache EXCEPT ![rep[p].key] =
                    [@ EXCEPT !.present = TRUE, !.status = StatusInvalid]]
    /\ rep' = [rep EXCEPT ![p].pc = "f_commit"]
    /\ UNCHANGED <<db, active, lock, nextId, threshold, adm, budget, sel,
                   hist, last, ser, affinityVars,
                   req, adding, moreVars>>

\* the serial effect of one counted failure report on (status, failure_count)
SerialFailure(s, force) ==
    IF s.status = StatusInvalid THEN s
    ELSE [fc |-> s.fc + 1,
          status |-> IF force \/ (threshold > 0 /\ s.fc + 1 >= threshold)
                     THEN StatusInvalid ELSE s.status]

\* handleFailure: the transaction commits tx.Model(&key).Updates(updates)
FailureCommit(p) ==
    LET r == rep[p]
        newFailureCount == NewFailureCount(r.fcRead)
        shouldBlacklist == ShouldBlacklist(r.force, threshold, newFailureCount)
    IN
    /\ r.pc = "f_commit"
    /\ db' = [db EXCEPT ![r.key] =
                 [@ EXCEPT !.fc = newFailureCount,
                           !.status = IF shouldBlacklist
                                      THEN StatusInvalid ELSE @]]
    /\ ser' = [ser EXCEPT ![r.key] = SerialFailure(@, r.force)]
    /\ lock' = [lock EXCEPT ![r.key] = None]
    /\ Finish(p, "committed")
    /\ UNCHANGED <<cache, active, nextId, threshold, adm, budget, sel, affinityVars,
                   req, adding, moreVars>>

\* executeTransactionWithRetry after p.db.Transaction has returned
\* "database is locked": sleep and run the operation again, or return the
\* error after maxRetries passes
RetryOrFail(p) ==
    IF rep[p].tries + 1 < maxRetries
    THEN /\ rep' = [rep EXCEPT ![p].pc = "f_lock", ![p].tries = @ + 1]
         /\ UNCHANGED <<hist, last>>
    ELSE Finish(p, "failed")

\* handleFailure on a database that is busy: the FOR UPDATE read returns
\* "database is locked" and the transaction ends without a write
FailureLockBusy(p) ==
    /\ rep[p].pc = "f_lock"
    /\ RetryOrFail(p)
    /\ UNCHANGED <<db, cache, active, lock, nextId, threshold, adm, budget,
                   sel, ser, affinityVars, req, adding, moreVars>>

\* handleFailure on a database that is busy: the operation has returned nil
\* and the COMMIT returns "database is locked"; the row is as before, the
\* store calls of the operation are done
FailureCommitLocked(p) ==
    /\ rep[p].pc = "f_commit"
    /\ lock' = [lock EXCEPT ![rep[p].key] = None]
    /\ RetryOrFail(p)
    /\ UNCHANGED <<db, cache, active, nextId, threshold, adm, budget,
                   sel, ser, affinityVars, req, adding, moreVars>>

\* --------------------------------------------------------- bulk operations
Existing(d) == {k \in KeyIds : d[k].exists}

InvalidIdsOf(d) == {k \in KeyIds : d[k].exists /\ d[k].status = StatusInvalid}

HashIn(d, vals) == {k \in KeyIds : d[k].exists /\ d[k].hash \in vals}

\* the key structs a Find returned, in id order
RECURSIVE FoundKeys(_, _)
FoundKeys(d, ids) ==
    IF ids = {} THEN << >>
    ELSE LET k == Min(ids) IN
         <<[id |-> k, key |-> d[k]]>> \o FoundKeys(d, ids \ {k})

Taint == [k \in KeyIds |-> [hist[k] EXCEPT !.pure = FALSE]]

StartAdmin ==
    /\ adm.pc = "idle"
    /\ budget.admin > 0
    /\ budget' = [budget EXCEPT !.admin = @ - 1]
    /\ hist' = Taint

\* processAndCreateKeysWithWeight: the weight given to a new key
AddWeight(w) == IF w < 1 THEN DefaultWeight
                ELSE IF w > MaxWeight THEN 5000 ELSE w

\* processAndCreateKeysWithWeight: drop inputs already in the group or
\* repeated in the batch, build the structs to create
RECURSIVE NewKeysToCreate(_, _, _)
NewKeysToCreate(keys, existingHashes, uniqueNewKeys) ==
    IF keys = << >> THEN << >>
    ELSE LET kw == Head(keys) IN
         IF kw.key \in uniqueNewKeys \/ kw.key \in existingHashes
         THEN NewKeysToCreate(Tail(keys), existingHashes, uniqueNewKeys)
         ELSE <<[exists |-> TRUE, status |-> StatusActive, fc |-> 0,
                 weight |-> AddWeight(kw.weight), base |-> 0,
                 hash |-> kw.key]>>
              \o NewKeysToCreate(Tail(keys), existingHashes,
                                 uniqueNewKeys \cup {kw.key})

\* tx.Create(&keys) numbers the new rows from the auto-increment counter
WithIds(new, first) ==
    [i \in 1..Len(new) |-> [id |-> first + i - 1, key |-> new[i]]]

\* processAndCreateKeysWithWeight + AddKeys up to tx.Create(&keys): the rows
\* get their ids, still uncommitted
AddKeysBegin(keys) ==
    LET existingHashes == {db[k].hash : k \in Existing(db)}
        new == NewKeysToCreate(keys, existingHashes, {})
    IN
    /\ StartAdmin
    /\ nextId + Len(new) - 1 <= NKeys
    /\ IF new = << >>
       THEN UNCHANGED <<adm, nextId>>
       ELSE /\ adm' = [AIdle EXCEPT !.op = "add", !.pc = "m_hset",
                          !.todo = WithIds(new, nextId),
                          !.created = WithIds(new, nextId)]
            /\ nextId' = nextId + Len(new)
    /\ UNCHANGED <<db, cache, active, lock, threshold, rep, sel, last, ser, affinityVars,
                   req, adding, moreVars>>

\* the api_keys table is created from models.APIKey; its index on key_hash
\* is taken not to be a unique one, so an insert is never refused for a
\* key_hash the group already has
KeyHashIndexIsUnique == FALSE

\* processAndCreateKeysWithWeight steps 1 and 2: Pluck the committed hashes
\* of the group, outside any transaction, and keep the keys to create
processAndCreateKeysWithWeight(keys) ==
    LET existingHashes == {db[k].hash : k \in Existing(db)}
        newKeysToCreate == NewKeysToCreate(keys, existingHashes, {})
    IN
    /\ budget.adds > 0
    /\ budget' = [budget EXCEPT !.adds = @ - 1]
    /\ adding' = IF newKeysToCreate = << >> THEN adding
                  ELSE Append(adding, newKeysToCreate)
    /\ UNCHANGED <<db, cache, active, lock, nextId, threshold, rep, adm, sel,
                   hist, last, ser, affinityVars, req, moreVars>>

\* parseKeyWithWeight: a suffix in [1, 1000] is the weight; any other suffix
\* stays in the key string and the key gets the default weight
parseKeyWithWeight(kw) ==
    IF kw.weight >= 1 /\ kw.weight <= MaxWeight THEN kw
    ELSE [key |-> kw.key, weight |-> DefaultWeight]

\* AddMultipleKeys: ParseKeysWithWeightFromText, then
\* processAndCreateKeysWithWeight on the parsed keys
AddMultipleKeys(keysText) ==
    processAndCreateKeysWithWeight(
        [i \in 1..Len(keysText) |-> parseKeyWithWeight(keysText[i])])

\* processAndCreateKeysWithWeight step 3 for one pending bulk add: AddKeys
\* opens its transaction and tx.Create(&keys) inserts the chunk
AddKeys(i) ==
    LET keys == adding[i]
        clash == \E j \in 1..Len(keys), k \in Existing(db) :
                    db[k].hash = keys[j].hash
    IN
    /\ adm.pc = "idle"
    /\ nextId + Len(keys) - 1 <= NKeys
    /\ adding' = [j \in 1..(Len(adding) - 1) |->
                     IF j < i THEN adding[j] ELSE adding[j + 1]]
    /\ hist' = Taint
    /\ IF KeyHashIndexIsUnique /\ clash
       THEN adm' = Failed(ErrStore) /\ UNCHANGED nextId
       ELSE /\ adm' = [AIdle EXCEPT !.op = "add", !.pc = "m_hset",
                          !.todo = WithIds(keys, nextId),
                          !.created = WithIds(keys, nextId)]
            /\ nextId' = nextId + Len(keys)
    /\ UNCHANGED <<db, cache, active, lock, threshold, rep, budget, sel, last,
                   ser, affinityVars, req, moreVars>>

\* KeyService.ClearRequestCount: one UPDATE of all rows of the group, which
\* waits for the row locks of open transactions; the store is not touched
ClearRequestCount ==
    /\ budget.admin > 0
    /\ budget' = [budget EXCEPT !.admin = @ - 1]
    /\ hist' = [k \in KeyIds |-> [hist[k] EXCEPT !.pure = FALSE,
                                                  !.since = InFlight(k)]]
    /\ \A k \in Existing(db) : lock[k] = None
    /\ db' = [k \in KeyIds |-> IF db[k].exists THEN [db[k] EXCEPT !.fc = 0]
                               ELSE db[k]]
    /\ ser' = [k \in KeyIds |-> [ser[k] EXCEPT !.fc = 0]]
    /\ UNCHANGED <<cache, active, lock, nextId, threshold, rep, adm, sel, last,
                   affinityVars, req, adding, moreVars>>

\* RestoreKeys: Find the invalid keys of the group
RestoreKeysBegin ==
    LET invalidKeys == FoundKeys(db, InvalidIdsOf(db)) IN
    /\ StartAdmin
    /\ adm' = IF invalidKeys = << >> THEN AIdle
              ELSE [AIdle EXCEPT !.op = "restore", !.pc = "upd",
                                 !.todo = invalidKeys,
                                 !.ids = InvalidIdsOf(db)]
    /\ UNCHANGED <<db, cache, active, lock, nextId, threshold, rep, sel, last,
                   ser, affinityVars,
                   req, adding, moreVars>>

\* RestoreMultipleKeys: Find the invalid keys among the given key values
RestoreMultipleKeysBegin(keyValues) ==
    LET ids == HashIn(db, keyValues) \cap InvalidIdsOf(db)
        keysToRestore == FoundKeys(db, ids)
    IN
    /\ StartAdmin
    /\ adm' = IF keysToRestore = << >> THEN AIdle
              ELSE [AIdle EXCEPT !.op = "restore_specific", !.pc = "upd",
                                 !.todo = keysToRestore, !.ids = ids]
    /\ UNCHANGED <<db, cache, active, lock, nextId, threshold, rep, sel, last,
                   ser, affinityVars,
                   req, adding, moreVars>>

\* RemoveKeys: Find the keys with the given key values
RemoveKeysBegin(keyValues) ==
    LET ids == HashIn(db, keyValues)
        keysToDelete == FoundKeys(db, ids)
    IN
    /\ StartAdmin
    /\ adm' = IF keysToDelete = << >> THEN AIdle
              ELSE [AIdle EXCEPT !.op = "remove", !.pc = "upd",
                                 !.todo = keysToDelete, !.ids = ids]
    /\ UNCHANGED <<db, cache, active, lock, nextId, threshold, rep, sel, last,
                   ser, affinityVars,
                   req, adding, moreVars>>

\* removeKeysByStatus: Find the keys of the group (with the status, if given)
RemoveKeysByStatusBegin(op) ==
    LET ids == IF op = "remove_invalid" THEN InvalidIdsOf(db) ELSE Existing(db)
        keysToRemove == FoundKeys(db, ids)
    IN
    /\ StartAdmin
    /\ adm' = IF keysToRemove = << >> THEN AIdle
              ELSE [AIdle EXCEPT !.op = op, !.pc = "upd",
                                 !.todo = keysToRemove]
    /\ UNCHANGED <<db, cache, active, lock, nextId, threshold, rep, sel, last,
                   ser, affinityVars,
                   req, adding, moreVars>>

\* a range check without its upper bound
ValidWeight_NoUpperBound(weight) == ~(weight < 1)

\* UpdateKeyWeight / UpdateKeysWeight: the range check on the weight
ValidWeight(weight) == ~(weight < 1 \/ weight > MaxWeight)

\* UpdateKeyWeight: range check, then tx.First(&key, keyID)
UpdateKeyWeightBegin(keyID, weight) ==
    /\ StartAdmin
    /\ adm' = IF ~ValidWeight(weight) THEN Failed(ErrWeight)
              ELSE IF ~db[keyID].exists THEN Failed(ErrFind)
              ELSE [AIdle EXCEPT !.op = "update_weight", !.pc = "upd",
                                 !.todo = FoundKeys(db, {keyID}),
                                 !.ids = {keyID}, !.w = weight]
    /\ UNCHANGED <<db, cache, active, lock, nextId, threshold, rep, sel, last,
                   ser, affinityVars, req, adding, moreVars>>

\* UpdateKeysWeight: range check, then Find the keys with the given hashes
UpdateKeysWeightBegin(keyHashes, weight) ==
    LET ids == HashIn(db, keyHashes)
        keys == FoundKeys(db, ids)
    IN
    /\ StartAdmin
    /\ adm' = IF ~ValidWeight(weight) THEN Failed(ErrWeight)
              ELSE IF keys = << >> THEN AIdle
              ELSE [AIdle EXCEPT !.op = "update_weights", !.pc = "upd",
                                 !.todo = keys, !.ids = ids, !.w = weight]
    /\ UNCHANGED <<db, cache, active, lock, nextId, threshold, rep, sel, last,
                   ser, affinityVars, req, adding, moreVars>>

\* ResetKeysWeight: the transaction starts with the UPDATE of the whole group
ResetKeysWeightBegin ==
    /\ StartAdmin
    /\ adm' = [AIdle EXCEPT !.op = "reset_weights", !.pc = "upd",
                            !.w = DefaultWeight]
    /\ UNCHANGED <<db, cache, active, lock, nextId, threshold, rep, sel, last,
                   ser, affinityVars, req, adding, moreVars>>

\* ResetSingleKeyWeight: tx.First(&key, keyID), the weight to restore
ResetSingleKeyWeightBegin(keyID) ==
    LET baseWeight == IF db[keyID].base <= 0 THEN DefaultWeight
                      ELSE db[keyID].base
    IN
    /\ StartAdmin
    /\ adm' = IF db[keyID].exists
              THEN [AIdle EXCEPT !.op = "reset_weight", !.pc = "upd",
                                 !.todo = FoundKeys(db, {keyID}),
                                 !.ids = {keyID}, !.w = baseWeight]
              ELSE Failed(ErrFind)
    /\ UNCHANGED <<db, cache, active, lock, nextId, threshold, rep, sel, last,
                   ser, affinityVars, req, adding, moreVars>>

\* the rows the UPDATE / DELETE statement of a bulk operation writes: its
\* WHERE clause is evaluated on the committed rows when it runs
Target(a, d) ==
    CASE a.op = "restore"          -> InvalidIdsOf(d)
      [] a.op = "restore_specific" -> a.ids \cap Existing(d)
      [] a.op = "remove"           -> a.ids \cap Existing(d)
      [] a.op = "remove_invalid"   -> InvalidIdsOf(d)
      [] a.op = "remove_all"       -> Existing(d)
      [] a.op = "reset_weights"    -> Existing(d)
      [] a.op \in {"update_weight", "update_weights", "reset_weight"}
                                   -> a.ids \cap Existing(d)
      [] OTHER                     -> {}

IsRemoval(op) == op \in {"remove", "remove_invalid", "remove_all"}

\* tx...Updates(updates) / tx...Delete(&models.APIKey{}): waits for the row
\* locks, then holds them until commit
AdminWrite ==
    LET target == Target(adm, db) IN
    /\ adm.pc = "upd"
    /\ \A k \in target : lock[k] = None
    /\ lock' = [k \in KeyIds |-> IF k \in target THEN APid ELSE lock[k]]
    /\ adm' = [adm EXCEPT !.matched = target,
                          !.pc = CASE IsRemoval(adm.op) -> "x_lrem"
                                   [] adm.op = "reset_weights" -> "w_find"
                                   [] adm.op \in {"update_weight",
                                        "update_weights", "reset_weight"}
                                        -> "w_hset"
                                   [] OTHER -> "m_hset"]
    /\ UNCHANGED <<db, cache, active, nextId, threshold, rep, budget, sel,
                   hist, last, ser, affinityVars,
                   req, adding, moreVars>>

\* the struct handed to addKeyToStore: restore sets Status and FailureCount
KeyToStore(a) ==
    LET key == Head(a.todo).key IN
    IF a.op = "add" THEN key
    ELSE [key EXCEPT !.status = StatusActive, !.fc = 0]

PopTodo(nextPc) ==
    adm' = [adm EXCEPT !.todo = Tail(@),
                       !.pc = IF Tail(adm.todo) = << >> THEN "commit"
                              ELSE nextPc]

\* addKeyToStore: store.HSet(keyHashKey, apiKeyToMap(key))
AddKeyToStoreHSet ==
    LET key == KeyToStore(adm) IN
    /\ adm.pc = "m_hset"
    /\ cache' = [cache EXCEPT ![Head(adm.todo).id] = apiKeyToMap(key)]
    /\ IF key.status = StatusActive
       THEN adm' = [adm EXCEPT !.pc = "m_lrem"]
       ELSE PopTodo("m_hset")
    /\ UNCHANGED <<db, active, lock, nextId, threshold, rep, budget, sel,
                   hist, last, ser, affinityVars,
                   req, adding, moreVars>>

\* addKeyToStore: store.LRem(activeKeysListKey, 0, key.ID)
AddKeyToStoreLRem ==
    /\ adm.pc = "m_lrem"
    /\ active' = LRem(active, Head(adm.todo).id)
    /\ adm' = [adm EXCEPT !.pc = "m_lpush"]
    /\ UNCHANGED <<db, cache, lock, nextId, threshold, rep, budget, sel,
                   hist, last, ser, affinityVars,
                   req, adding, moreVars>>

\* addKeyToStore: store.LPush(activeKeysListKey, key.ID)
AddKeyToStoreLPush ==
    /\ adm.pc = "m_lpush"
    /\ active' = LPush(active, Head(adm.todo).id)
    /\ PopTodo("m_hset")
    /\ UNCHANGED <<db, cache, lock, nextId, threshold, rep, budget, sel,
                   hist, last, ser, affinityVars,
                   req, adding, moreVars>>

\* removeKeyFromStore: store.LRem(activeKeysListKey, 0, keyID)
RemoveKeyFromStoreLRem ==
    /\ adm.pc = "x_lrem"
    /\ active' = LRem(active, Head(adm.todo).id)
    /\ adm' = [adm EXCEPT !.pc = "x_del"]
    /\ UNCHANGED <<db, cache, lock, nextId, threshold, rep, budget, sel,
                   hist, last, ser, affinityVars,
                   req, adding, moreVars>>

\* removeKeyFromStore: store.Delete(keyHashKey)
RemoveKeyFromStoreDelete ==
    /\ adm.pc = "x_del"
    /\ cache' = [cache EXCEPT ![Head(adm.todo).id] = NoHash]
    /\ PopTodo("x_lrem")
    /\ UNCHANGED <<db, active, lock, nextId, threshold, rep, budget, sel,
                   hist, last, ser, affinityVars,
                   req, adding, moreVars>>

\* RemoveKeysFromStore: nothing to do for an empty keyIDs, else store.Delete
\* of the list group:<id>:active_keys; the database is not touched
RemoveKeysFromStoreBegin(keyIDs) ==
    /\ StartAdmin
    /\ IF keyIDs = {}
       THEN UNCHANGED <<active, adm>>
       ELSE /\ active' = << >>
            /\ adm' = [AIdle EXCEPT !.op = "store_remove", !.pc = "s_del",
                                    !.todo = SortedSeq(keyIDs),
                                    !.ids = keyIDs]
    /\ UNCHANGED <<db, cache, lock, nextId, threshold, rep, sel, last,
                   ser, affinityVars, req, adding, moreVars>>

\* RemoveKeysFromStore, one pass of for _, keyID := range keyIDs:
\* store.Delete of the key hash
RemoveKeysFromStoreDelete ==
    /\ adm.pc = "s_del"
    /\ cache' = [cache EXCEPT ![Head(adm.todo)] = NoHash]
    /\ adm' = IF Tail(adm.todo) = << >> THEN AIdle
              ELSE [adm EXCEPT !.todo = Tail(@)]
    /\ UNCHANGED <<db, active, lock, nextId, threshold, rep, budget, sel,
                   hist, last, ser, affinityVars,
                   req, adding, moreVars>>

\* ResetKeysWeight: tx.Select("id").Where("group_id = ?").Find(&keys)
ResetKeysWeightFind ==
    LET keys == FoundKeys(db, Existing(db)) IN
    /\ adm.pc = "w_find"
    /\ adm' = [adm EXCEPT !.todo = keys,
                          !.pc = IF keys = << >> THEN "commit" ELSE "w_hset"]
    /\ UNCHANGED <<db, cache, active, lock, nextId, threshold, rep, budget,
                   sel, hist, last, ser, affinityVars, req, adding, moreVars>>

\* the weight operations: store.HSet(keyHashKey, {base_weight, weight});
\* ResetSingleKeyWeight writes the weight only
WeightHSet ==
    /\ adm.pc = "w_hset"
    /\ cache' = [cache EXCEPT ![Head(adm.todo).id] =
                    [@ EXCEPT !.present = TRUE, !.weight = adm.w,
                              !.base = IF adm.op = "reset_weight" THEN @
                                       ELSE adm.w]]
    /\ adm' = [adm EXCEPT !.pc = "w_clear"]
    /\ UNCHANGED <<db, active, lock, nextId, threshold, rep, budget, sel,
                   hist, last, ser, affinityVars, req, adding, moreVars>>

\* clearCacheHitRecordsForKey: drop the records of the key and their entries
clearCacheHitRecordsForKey(keyID) ==
    LET keysToDelete == {h \in Hashes : records[h] = keyID} IN
    /\ records' = [h \in Hashes |-> IF h \in keysToDelete THEN None
                                     ELSE records[h]]
    /\ hits' = [h \in Hashes |-> IF h \in keysToDelete THEN None ELSE hits[h]]

WeightClear ==
    /\ adm.pc = "w_clear"
    /\ clearCacheHitRecordsForKey(Head(adm.todo).id)
    /\ PopTodo("w_hset")
    /\ UNCHANGED <<db, cache, active, lock, nextId, threshold, rep, budget,
                   sel, hist, last, ser, adj, sched, req, adding, moreVars>>

\* the rows of the database once the transaction of a bulk operation commits
CommittedRows(a, d) ==
    [k \in KeyIds |->
        CASE \E i \in 1..Len(a.created) : a.created[i].id = k
               -> LET i == CHOOSE i \in 1..Len(a.created) : a.created[i].id = k
                  IN a.created[i].key
          [] IsRemoval(a.op) /\ k \in a.matched -> NoRow
          [] a.op \in {"restore", "restore_specific"} /\ k \in a.matched
               -> [d[k] EXCEPT !.status = StatusActive, !.fc = 0]
          [] a.op = "reset_weight" /\ k \in a.matched
               -> [d[k] EXCEPT !.weight = a.w]
          [] a.op \in {"update_weight", "update_weights", "reset_weights"}
             /\ k \in a.matched
               -> [d[k] EXCEPT !.weight = a.w, !.base = a.w]
          [] OTHER -> d[k]]

CreatedIds(a) == {a.created[i].id : i \in 1..Len(a.created)}

AdminCommit ==
    /\ adm.pc = "commit"
    /\ db' = CommittedRows(adm, db)
    /\ ser' = [k \in KeyIds |->
                 IF k \in adm.matched \cup CreatedIds(adm)
                 THEN [status |-> db'[k].status, fc |-> db'[k].fc]
                 ELSE ser[k]]
    /\ lock' = [k \in KeyIds |-> IF lock[k] = APid THEN None ELSE lock[k]]
    /\ adm' = AIdle
    /\ UNCHANGED <<cache, active, nextId, threshold, rep, budget, sel, hist, last, affinityVars,
                   req, adding, moreVars>>

\* the function passed to db.Transaction returns err: the transaction is
\* rolled back, its writes are dropped and its row locks released
Rollback(err) ==
    /\ adm' = Failed(err)
    /\ lock' = [k \in KeyIds |-> IF lock[k] = APid THEN None ELSE lock[k]]
    /\ UNCHANGED <<db, cache, active, nextId, threshold, rep, budget, sel,
                   hist, last, ser, affinityVars, req, adding, moreVars>>

\* addKeyToStore: HSet, LRem or LPush fails; the error goes up to the
\* transaction
AddKeyToStoreFails ==
    /\ adm.pc \in {"m_hset", "m_lrem", "m_lpush"}
    /\ Rollback(ErrStore)

\* removeKeyFromStore: LRem fails; the error is logged and Delete comes next
RemoveKeyFromStoreLRemFails ==
    /\ adm.pc = "x_lrem"
    /\ adm' = [adm EXCEPT !.pc = "x_del"]
    /\ UNCHANGED <<db, cache, active, lock, nextId, threshold, rep, budget,
                   sel, hist, last, ser, affinityVars, req, adding, moreVars>>

\* removeKeyFromStore: Delete fails; the error goes up to the transaction
RemoveKeyFromStoreDeleteFails ==
    /\ adm.pc = "x_del"
    /\ Rollback(ErrStore)

\* the weight operations: HSet fails.  UpdateKeyWeight and
\* ResetSingleKeyWeight return the error; UpdateKeysWeight and
\* ResetKeysWeight log it and go on with clearCacheHitRecordsForKey
WeightHSetFails ==
    /\ adm.pc = "w_hset"
    /\ IF adm.op \in {"update_weight", "reset_weight"}
       THEN Rollback(ErrStore)
       ELSE /\ adm' = [adm EXCEPT !.pc = "w_clear"]
            /\ UNCHANGED <<db, cache, active, lock, nextId, threshold, rep,
                           budget, sel, hist, last, ser, affinityVars, req, adding, moreVars>>

\* a store call of the cache mirror step fails
MirrorFails ==
    \/ AddKeyToStoreFails
    \/ RemoveKeyFromStoreLRemFails
    \/ RemoveKeyFromStoreDeleteFails
    \/ WeightHSetFails

AdminStep ==
    \/ AdminWrite
    \/ AddKeyToStoreHSet
    \/ AddKeyToStoreLRem
    \/ AddKeyToStoreLPush
    \/ RemoveKeyFromStoreLRem
    \/ RemoveKeyFromStoreDelete
    \/ AdminCommit

AddInputs(weights) ==
    UNION {[1..n -> [key : Values, weight : weights]] : n \in 1..NKeys}

ValueSets == (SUBSET Values) \ {{}}

Admin ==
    \/ \E keys \in AddInputs({DefaultWeight}) : AddKeysBegin(keys)
    \/ RestoreKeysBegin
    \/ \E keyValues \in ValueSets : RestoreMultipleKeysBegin(keyValues)
    \/ \E keyValues \in ValueSets : RemoveKeysBegin(keyValues)
    \/ \E op \in {"remove_invalid", "remove_all"} : RemoveKeysByStatusBegin(op)
    \/ AdminStep


ReportStep(p) ==
    \/ ReportRead(p)
    \/ ReportLock(p)
    \/ SuccessHSet(p)
    \/ SuccessLRem(p)
    \/ SuccessLPush(p)
    \/ SuccessCommit(p)
    \/ FailureHIncrBy(p)
    \/ FailureLRem(p)
    \/ FailureHSet(p)
    \/ FailureCommit(p)

Report ==
    \E p \in Reporters :
       \/ \E k \in Created, ok \in BOOLEAN, force \in BOOLEAN :
             \E msg \in IF ok THEN {""} ELSE Msgs :
                \* force is read by handleFailure only
                /\ ((ok \/ IsUnCounted(msg)) => ~force)
                /\ UpdateStatus(p, k, ok, msg, force)
                /\ UNCHANGED req
       \/ ReportStep(p)

\* ------------------------------------------------------- LoadKeysFromDB
\* the process starts again over the store the previous run left behind:
\* the goroutines of the previous run, their open transactions and row locks
\* and the in-process cacheHitRecords are gone.  LoadKeysFromDB then HSets
\* the hash of every row, batch by batch in id order, and for a group with
\* at least one active key deletes active_keys and LPushes the active ids
LoadKeysFromDB ==
    LET allActiveKeyIDs == SortedSeq(ActiveIdsOf(db)) IN
    /\ cache' = [k \in KeyIds |-> IF db[k].exists THEN apiKeyToMap(db[k])
                                  ELSE cache[k]]
    /\ active' = IF Len(allActiveKeyIDs) > 0
                  THEN LPushAll(<< >>, allActiveKeyIDs)
                  ELSE active
    /\ rep' = [p \in Reporters |-> RIdle]
    /\ lock' = [k \in KeyIds |-> None]
    /\ adm' = AIdle
    /\ records' = [h \in Hashes |-> None]
    /\ adj' = [a \in Adjusters |-> AdjIdle]
    /\ sched' = {}
    /\ UNCHANGED <<db, nextId, threshold, budget, sel, hist, last, ser, hits,
                   req, adding, moreVars>>

\* ------------------------------------------------------------ SelectKey
\* the weight SelectKey reads from a key hash
SelectWeight(details) == IF details.weight <= 0 THEN DefaultWeight
                         ELSE details.weight

\* SelectKey step 3: rotate up to listLen times, collecting (id, weight)
\* until the first id comes round again
RECURSIVE CollectKeys(_, _, _, _, _, _)
CollectKeys(list, c, firstKeyID, i, listLen, keys) ==
    IF i >= listLen THEN [keys |-> keys, list |-> list]
    ELSE LET nextKeyID == Head(list)
             rotated == Rotate(list)
         IN IF nextKeyID = firstKeyID
            THEN [keys |-> keys, list |-> rotated]
            ELSE CollectKeys(rotated, c, firstKeyID, i + 1, listLen,
                     Append(keys, [id |-> nextKeyID,
                                   weight |-> SelectWeight(c[nextKeyID])]))

RECURSIVE TotalWeight(_)
TotalWeight(keys) == IF keys = << >> THEN 0
                     ELSE Head(keys).weight + TotalWeight(Tail(keys))

\* a weighted pick that compares with <= instead of <
RECURSIVE WeightedPick_Inclusive(_, _, _)
WeightedPick_Inclusive(keys, r, cumulative) ==
    IF r <= cumulative + Head(keys).weight \/ Len(keys) = 1
    THEN Head(keys).id
    ELSE WeightedPick_Inclusive(Tail(keys), r, cumulative + Head(keys).weight)

\* SelectKey step 4: the first key whose cumulative weight exceeds r
RECURSIVE WeightedPick(_, _, _)
WeightedPick(keys, r, cumulative) ==
    IF r < cumulative + Head(keys).weight \/ Len(keys) = 1
    THEN Head(keys).id
    ELSE WeightedPick(Tail(keys), r, cumulative + Head(keys).weight)

\* the values of rand.Intn(totalWeight) that can tell two picks apart: the
\* ends of every key's interval of the cumulative weights
RECURSIVE Cumulative(_, _)
Cumulative(keys, c) ==
    IF keys = << >> THEN {}
    ELSE {c, c + Head(keys).weight - 1}
         \cup Cumulative(Tail(keys), c + Head(keys).weight)

\* getKeyDetails: the APIKey value built from the key hash
getKeyDetails(c, keyID) ==
    LET keyDetails == c[keyID]
        baseWeight == IF keyDetails.base <= 0 THEN DefaultWeight
                      ELSE keyDetails.base
        weight == IF keyDetails.weight <= 0 THEN baseWeight
                  ELSE keyDetails.weight
    IN [err |-> "", id |-> keyID, status |-> keyDetails.status,
        weight |-> weight, base |-> baseWeight, fc |-> keyDetails.fc]

\* SelectKey with the empty-list check off by one
SelectKeyResults_OffByOne(list, c) ==
    LET listLen == Len(list) IN
    IF listLen <= 1 THEN {[key |-> ErrNoActiveKeys, list |-> list]}
    ELSE LET firstKeyID == Head(list)
             col == CollectKeys(Rotate(list), c, firstKeyID, 1, listLen,
                       <<[id |-> firstKeyID,
                          weight |-> SelectWeight(c[firstKeyID])]>>)
             totalWeight == TotalWeight(col.keys)
         IN {[key |-> getKeyDetails(c, WeightedPick(col.keys, r, 0)),
              list |-> col.list] :
                r \in Cumulative(col.keys, 0) \cap 0..(totalWeight - 1)}

\* SelectKey, run without interruption: the results it can return (one per
\* value of rand.Intn) with the list each leaves behind
SelectKeyResults(list, c) ==
    LET listLen == Len(list) IN
    IF listLen = 0 THEN {[key |-> ErrNoActiveKeys, list |-> list]}
    ELSE IF listLen = 1
    THEN {[key |-> getKeyDetails(c, Head(list)), list |-> Rotate(list)]}
    ELSE LET firstKeyID == Head(list)
             col == CollectKeys(Rotate(list), c, firstKeyID, 1, listLen,
                       <<[id |-> firstKeyID,
                          weight |-> SelectWeight(c[firstKeyID])]>>)
             totalWeight == TotalWeight(col.keys)
         IN {[key |-> getKeyDetails(c, WeightedPick(col.keys, r, 0)),
              list |-> col.list] :
                r \in Cumulative(col.keys, 0) \cap 0..(totalWeight - 1)}

SelectKey ==
    /\ budget.selects > 0
    /\ budget' = [budget EXCEPT !.selects = @ - 1]
    /\ \E res \in SelectKeyResults(active, cache) :
          /\ sel' = res.key
          /\ active' = res.list
    /\ UNCHANGED <<db, cache, lock, nextId, threshold, rep, adm, hist, last, ser, affinityVars,
                   req, adding, moreVars>>

\* ---------------------------------- SelectKey, one store call at a time
\* step 1: store.LLen; an empty list ends the call, a list of one goes to
\* selectKeyByRotate
SelLLen(p) ==
    LET listLen == Len(active) IN
    /\ selr[p].pc \in {"idle", "done"}
    /\ budget.selects > 0
    /\ budget' = [budget EXCEPT !.selects = @ - 1]
    /\ selr' = [selr EXCEPT ![p] =
          IF listLen = 0
          THEN [SelIdle EXCEPT !.pc = "done", !.res = ErrNoActiveKeys]
          ELSE [SelIdle EXCEPT !.listLen = listLen,
                               !.pc = IF listLen = 1 THEN "single"
                                      ELSE "first"]]
    /\ UNCHANGED active
    /\ UNCHANGED <<db, cache, lock, nextId, threshold, rep, adm, sel, hist,
                   last, ser, affinityVars, req, adding, retry, outbound,
                   tickerVars>>

\* selectKeyByRotate: store.Rotate, ErrNotFound on a list that is gone
SelSingle(p) ==
    /\ selr[p].pc = "single"
    /\ IF active = << >>
       THEN /\ selr' = [selr EXCEPT ![p].pc = "done",
                                    ![p].res = ErrNoActiveKeys]
            /\ UNCHANGED active
       ELSE /\ selr' = [selr EXCEPT ![p].pc = "details", ![p].rot = 1,
                                    ![p].picked = Head(active)]
            /\ active' = Rotate(active)
    /\ UNCHANGED budget
    /\ UNCHANGED <<db, cache, lock, nextId, threshold, rep, adm, sel, hist,
                   last, ser, affinityVars, req, adding, retry, outbound,
                   tickerVars>>

\* step 3, the first key: store.Rotate and the HGetAll of its weight
SelFirst(p) ==
    /\ selr[p].pc = "first"
    /\ IF active = << >>
       THEN /\ selr' = [selr EXCEPT ![p].pc = "done",
                                    ![p].res = ErrNoActiveKeys]
            /\ UNCHANGED active
       ELSE LET firstKeyID == Head(active) IN
            /\ selr' = [selr EXCEPT
                  ![p].pc = "loop", ![p].first = firstKeyID, ![p].i = 1,
                  ![p].rot = 1,
                  ![p].keys = <<[id |-> firstKeyID,
                                 weight |-> SelectWeight(cache[firstKeyID])]>>]
            /\ active' = Rotate(active)
    /\ UNCHANGED budget
    /\ UNCHANGED <<db, cache, lock, nextId, threshold, rep, adm, sel, hist,
                   last, ser, affinityVars, req, adding, retry, outbound,
                   tickerVars>>

\* step 3, one pass of for i := 1; i < listLen; i++: store.Rotate, break
\* on an error or on the first id, else the HGetAll of the weight
SelNext(p) ==
    LET r == selr[p] IN
    /\ r.pc = "loop"
    /\ IF r.i >= r.listLen \/ active = << >>
       THEN /\ selr' = [selr EXCEPT ![p].pc = "pick"]
            /\ UNCHANGED active
       ELSE LET nextKeyID == Head(active) IN
            /\ active' = Rotate(active)
            /\ selr' = [selr EXCEPT ![p] =
                  IF nextKeyID = r.first
                  THEN [r EXCEPT !.pc = "pick", !.rot = @ + 1]
                  ELSE [r EXCEPT !.rot = @ + 1, !.i = @ + 1,
                          !.keys = Append(@,
                             [id |-> nextKeyID,
                              weight |-> SelectWeight(cache[nextKeyID])])]]
    /\ UNCHANGED budget
    /\ UNCHANGED <<db, cache, lock, nextId, threshold, rep, adm, sel, hist,
                   last, ser, affinityVars, req, adding, retry, outbound,
                   tickerVars>>

\* steps 4 and 5: the weighted pick among the collected keys, then
\* getKeyDetails of the key picked
SelPick(p) ==
    LET r == selr[p] IN
    /\ r.pc = "pick"
    /\ \E n \in Cumulative(r.keys, 0) \cap 0..(TotalWeight(r.keys) - 1) :
          selr' = [selr EXCEPT ![p].pc = "done",
                     ![p].picked = WeightedPick(r.keys, n, 0),
                     ![p].res = getKeyDetails(cache,
                                              WeightedPick(r.keys, n, 0))]
    /\ UNCHANGED <<active, budget>>
    /\ UNCHANGED <<db, cache, lock, nextId, threshold, rep, adm, sel, hist,
                   last, ser, affinityVars, req, adding, retry, outbound,
                   tickerVars>>

\* selectKeyByRotate: getKeyDetails of the key rotated
SelDetails(p) ==
    /\ selr[p].pc = "details"
    /\ selr' = [selr EXCEPT ![p].pc = "done",
                            ![p].res = getKeyDetails(cache, selr[p].picked)]
    /\ UNCHANGED <<active, budget>>
    /\ UNCHANGED <<db, cache, lock, nextId, threshold, rep, adm, sel, hist,
                   last, ser, affinityVars, req, adding, retry, outbound,
                   tickerVars>>

SelStep(p) ==
    \/ SelLLen(p)
    \/ SelSingle(p)
    \/ SelFirst(p)
    \/ SelNext(p)
    \/ SelPick(p)
    \/ SelDetails(p)


\* ------------------------------------------------- cache-hit affinity
Sizes == {MinCacheHitSize, MinCacheHitSize + 1}

DropCounts == <<2, 4, 6>>

\* the entry of a key that is no longer active, left where it is
DeleteEntry_Keeps(entries, hash) == entries

\* SelectKeyWithCacheHit: store.Delete(cacheKey) and
\* removeCacheHitRecord(cacheKey) for the entry of a key no longer active
DeleteEntry(entries, hash) == [entries EXCEPT ![hash] = None]

\* SelectKeyWithCacheHit: the loop over dropCount = 2, 4, 6
RECURSIVE MatchCacheHit(_, _, _, _, _, _)
MatchCacheHit(drops, messages, c, h, rc, calls) ==
    IF drops = << >>
    THEN [hit |-> FALSE, key |-> NoSelection, hits |-> h, records |-> rc,
          calls |-> calls, sched |-> {}]
    ELSE LET dropCount == Head(drops)
             hash == CalculatePromptHash(messages, dropCount)
         IN
         IF hash = NoPromptHash \/ h[hash] = None
         THEN MatchCacheHit(Tail(drops), messages, c, h, rc, calls)
         ELSE LET keyID == h[hash]
                  apiKey == getKeyDetails(c, keyID)
                  newHash == CalculatePromptHash(messages, 2)
                  fresh == newHash # NoPromptHash /\ newHash # hash
              IN
              IF apiKey.status # StatusActive
              THEN MatchCacheHit(Tail(drops), messages, c,
                       DeleteEntry(h, hash), DeleteEntry(rc, hash),
                       Append(calls, [key |-> keyID, delta |-> 1]))
              ELSE [hit |-> TRUE, key |-> apiKey,
                    hits |-> IF fresh THEN [h EXCEPT ![newHash] = keyID]
                             ELSE h,
                    records |-> IF fresh THEN [rc EXCEPT ![newHash] = keyID]
                                ELSE rc,
                    calls |-> IF fresh
                              THEN Append(calls, [key |-> keyID, delta |-> -1])
                              ELSE calls,
                    sched |-> IF dropCount > 2
                              THEN {[hash |-> hash, key |-> keyID]} ELSE {}]

\* the size check taken one byte too low
SkipsCacheHit_SizeBelow(messages, size, enableCacheHit) ==
    \/ ~enableCacheHit
    \/ size < MinCacheHitSize
    \/ Len(messages) < MinCacheHitMessages

\* SelectKeyWithCacheHit: the two early returns of p.SelectKey(groupID)
SkipsCacheHit(messages, size, enableCacheHit) ==
    \/ ~enableCacheHit
    \/ size <= MinCacheHitSize
    \/ Len(messages) < MinCacheHitMessages

\* SelectKeyWithCacheHit, run without interruption: the keys it can return
\* with the list, the entries, the records, the AdjustKeyWeightAsync calls
\* and the scheduled deletions each leaves behind
SelectKeyWithCacheHitResults(list, c, h, rc, messages, size, enableCacheHit) ==
    LET plain == {[key |-> r.key, list |-> r.list, hits |-> h, records |-> rc,
                   calls |-> << >>, sched |-> {}] :
                     r \in SelectKeyResults(list, c)}
        m == MatchCacheHit(DropCounts, messages, c, h, rc, << >>)
        newHash == CalculatePromptHash(messages, 2)
    IN
    IF SkipsCacheHit(messages, size, enableCacheHit) THEN plain
    ELSE IF m.hit
    THEN {[key |-> m.key, list |-> list, hits |-> m.hits,
           records |-> m.records, calls |-> m.calls, sched |-> m.sched]}
    ELSE {IF r.key.err # "" \/ newHash = NoPromptHash
          THEN [key |-> r.key, list |-> r.list, hits |-> m.hits,
                records |-> m.records, calls |-> m.calls, sched |-> {}]
          ELSE [key |-> r.key, list |-> r.list,
                hits |-> [m.hits EXCEPT ![newHash] = r.key.id],
                records |-> [m.records EXCEPT ![newHash] = r.key.id],
                calls |-> Append(m.calls, [key |-> r.key.id, delta |-> -1]),
                sched |-> {}] :
             r \in SelectKeyResults(list, c)}

FreeAdjusters(a) == {i \in Adjusters : a[i].pc = "idle"}

CanSpawn(a, calls) == Len(calls) <= Cardinality(FreeAdjusters(a))

\* AdjustKeyWeightAsync(keyID, delta): one goroutine per call
RECURSIVE Spawn(_, _)
Spawn(a, calls) ==
    IF calls = << >> THEN a
    ELSE Spawn([a EXCEPT ![Min(FreeAdjusters(a))] =
                   [AdjIdle EXCEPT !.pc = "read", !.key = Head(calls).key,
                                   !.delta = Head(calls).delta]],
               Tail(calls))

\* SelectKeyWithCacheHit(groupID, bodyBytes, enableCacheHit); the caller
\* says what becomes of rep, budget and req
SelectKeyWithCacheHit(messages, size, enableCacheHit) ==
    \E res \in SelectKeyWithCacheHitResults(active, cache, hits, records,
                                            messages, size, enableCacheHit) :
       /\ CanSpawn(adj, res.calls)
       /\ sel' = res.key
       /\ active' = res.list
       /\ hits' = res.hits
       /\ records' = res.records
       /\ adj' = Spawn(adj, res.calls)
       /\ sched' = sched \cup res.sched
       /\ UNCHANGED <<db, cache, lock, nextId, threshold, adm, hist, last, ser>>

\* a caller of SelectKeyWithCacheHit outside the retry loop
SelectWithAffinityOf(messages, size, enableCacheHit) ==
    /\ budget.selects > 0
    /\ budget' = [budget EXCEPT !.selects = @ - 1]
    /\ SelectKeyWithCacheHit(messages, size, enableCacheHit)
    /\ UNCHANGED <<rep, req, adding, moreVars>>

\* a request of any length and size, no message with a cache_control field
SelectWithAffinity ==
    \E n \in 1..MaxMsgs, size \in Sizes, enableCacheHit \in BOOLEAN :
       SelectWithAffinityOf(Messages(n, FALSE), size, enableCacheHit)

\* a request that meets the preconditions of the cache-hit logic, its first
\* message with or without a cache_control field
SelectWithCacheControl ==
    \E n \in MinCacheHitMessages..MaxMsgs, marked \in BOOLEAN :
       SelectWithAffinityOf(Messages(n, marked), MinCacheHitSize + 1, TRUE)

\* AdjustKeyWeightAsync: store.HGetAll(keyHashKey)
AdjustRead(i) ==
    LET details == cache[adj[i].key] IN
    /\ adj[i].pc = "read"
    /\ adj' = [adj EXCEPT ![i].pc = "write",
                          ![i].weight = details.weight,
                          ![i].base = IF details.base <= 0 THEN DefaultWeight
                                      ELSE details.base]
    /\ UNCHANGED <<db, cache, active, lock, nextId, threshold, rep, adm,
                   budget, sel, hist, last, ser, hits, records, sched, req, adding, moreVars>>

\* AdjustKeyWeightAsync: the new weight, between 1 and base_weight
AdjustedWeight(currentWeight, baseWeight, delta) ==
    LET newWeight == currentWeight + delta
        atLeast1 == IF newWeight < 1 THEN 1 ELSE newWeight
    IN IF atLeast1 > baseWeight THEN baseWeight ELSE atLeast1

\* AdjustKeyWeightAsync: store.HSet(keyHashKey, {"weight": newWeight})
AdjustWrite(i) ==
    LET a == adj[i] IN
    /\ a.pc = "write"
    /\ cache' = [cache EXCEPT ![a.key] =
                    [@ EXCEPT !.present = TRUE,
                              !.weight = AdjustedWeight(a.weight, a.base,
                                                        a.delta)]]
    /\ adj' = [adj EXCEPT ![i] = AdjIdle]
    /\ sync' = IF sync.pc = "idle" THEN sync
               ELSE [sync EXCEPT !.changed = TRUE]
    /\ UNCHANGED <<db, active, lock, nextId, threshold, rep, adm, budget,
                   sel, hist, last, ser, hits, records, sched, req, adding,
                   retry, outbound, selr, expired, sweep>>

\* GetRealTimeWeight: the weight field of the key hash (0 when missing)
GetRealTimeWeight(c, keyID) == c[keyID].weight

\* store.Delete(key) has one outcome (spec 3: delete(key)); only rotate
\* names a "not found" one, so deleting an entry that is gone is no error
DeleteFails(entries, hash) == FALSE

\* scheduleHashDeletion, once its sleep is over: delete the entry, give the
\* weight back, drop the record
HashDeletion(e) ==
    LET calls == IF DeleteFails(hits, e.hash) THEN << >>
                 ELSE <<[key |-> e.key, delta |-> 1]>> IN
    /\ e \in sched
    /\ CanSpawn(adj, calls)
    /\ hits' = [hits EXCEPT ![e.hash] = None]
    /\ adj' = Spawn(adj, calls)
    /\ records' = [records EXCEPT ![e.hash] = None]
    /\ sched' = sched \ {e}
    /\ UNCHANGED <<db, cache, active, lock, nextId, threshold, rep, adm,
                   budget, sel, hist, last, ser, req, adding, moreVars>>

\* time passes: the ExpTime of the record of hash, 10 minutes after
\* setCacheHitEntry, is reached, and the store drops the entry whose TTL is
\* the same 10 minutes
Expire(hash) ==
    /\ records[hash] # None
    /\ hash \notin expired
    /\ expired' = expired \cup {hash}
    /\ hits' = [hits EXCEPT ![hash] = None]
    /\ UNCHANGED <<db, cache, active, lock, nextId, threshold, rep, adm,
                   budget, sel, hist, last, ser, records, adj, sched, req,
                   adding, retry, outbound, selr, sweep, sync>>

\* a request while records can expire: setCacheHitEntry writes a record
\* with a fresh ExpTime
SelectWithExpiry ==
    \E n \in MinCacheHitMessages..MaxMsgs :
       LET messages == Messages(n, FALSE)
           registers == \E a \in Adjusters :
                           adj'[a] # adj[a] /\ adj'[a].delta = -1
       IN
       /\ budget.selects > 0
       /\ budget' = [budget EXCEPT !.selects = @ - 1]
       /\ SelectKeyWithCacheHit(messages, MinCacheHitSize + 1, TRUE)
       /\ expired' = IF registers
                     THEN expired \ {CalculatePromptHash(messages, 2)}
                     ELSE expired
       /\ UNCHANGED <<rep, req, adding, retry, outbound, selr, sweep, sync>>

\* cleanupExpiredCacheHitEntries: the records with ExpTime <= now, collected
\* under the read lock
SweepCollect ==
    LET expiredRecords == {[hash |-> h, key |-> records[h]] :
                             h \in {x \in expired : records[x] # None}}
    IN
    /\ sweep.pc = "idle"
    /\ expiredRecords # {}
    /\ sweep' = [pc |-> "clean", expiredRecords |-> expiredRecords]
    /\ UNCHANGED <<db, cache, active, lock, nextId, threshold, rep, adm,
                   budget, sel, hist, last, ser, affinityVars, req, adding,
                   retry, outbound, selr, expired, sync>>

\* cleanupExpiredCacheHitEntries, one pass of the loop over expiredRecords:
\* store.Delete(cacheKey), AdjustKeyWeightAsync(record.KeyID, 1),
\* removeCacheHitRecord(cacheKey)
SweepClean ==
    \E record \in sweep.expiredRecords :
       LET calls == <<[key |-> record.key, delta |-> 1]>>
           rest == sweep.expiredRecords \ {record}
       IN
       /\ sweep.pc = "clean"
       /\ CanSpawn(adj, calls)
       /\ hits' = [hits EXCEPT ![record.hash] = None]
       /\ adj' = Spawn(adj, calls)
       /\ records' = [records EXCEPT ![record.hash] = None]
       /\ sweep' = IF rest = {} THEN SweepIdle
                   ELSE [sweep EXCEPT !.expiredRecords = rest]
       /\ UNCHANGED <<db, cache, active, lock, nextId, threshold, rep, adm,
                      budget, sel, hist, last, ser, sched, req, adding,
                      retry, outbound, selr, expired, sync>>

\* syncWeightsToDatabase: p.db.Select("id", "weight").Find(&keys)
SyncFind ==
    LET ids == SortedSeq({k \in KeyIds : db[k].exists}) IN
    /\ sync.pc = "idle"
    /\ ids # << >>
    /\ sync' = [pc |-> "read",
                keys |-> [i \in 1..Len(ids) |->
                            [id |-> ids[i], weight |-> db[ids[i]].weight]],
                storeWeight |-> 0,
                changed |-> FreeAdjusters(adj) # Adjusters]
    /\ UNCHANGED <<db, cache, active, lock, nextId, threshold, rep, adm,
                   budget, sel, hist, last, ser, affinityVars, req, adding,
                   retry, outbound, selr, expired, sweep>>

\* syncWeightsToDatabase: store.HGetAll(keyHashKey) of the next key, a
\* weight <= 0 read as 500
SyncHGetAll ==
    LET details == cache[Head(sync.keys).id] IN
    /\ sync.pc = "read"
    /\ sync' = [sync EXCEPT !.pc = "update",
                            !.storeWeight = SelectWeight(details)]
    /\ UNCHANGED <<db, cache, active, lock, nextId, threshold, rep, adm,
                   budget, sel, hist, last, ser, affinityVars, req, adding,
                   retry, outbound, selr, expired, sweep>>

\* the comparison turned into "the store weight is lower"
NeedsSync_OnlyLower(storeWeight, dbWeight) == storeWeight < dbWeight

\* syncWeightsToDatabase: if storeWeight != key.Weight
NeedsSync(storeWeight, dbWeight) == storeWeight # dbWeight

\* syncWeightsToDatabase: Where("id = ?", key.ID).Update("weight",
\* storeWeight) when the weights differ, then the next key or the end
SyncUpdate ==
    LET key == Head(sync.keys)
        writes == NeedsSync(sync.storeWeight, key.weight) /\ db[key.id].exists
    IN
    /\ sync.pc = "update"
    /\ writes => lock[key.id] = None
    /\ db' = IF writes
             THEN [db EXCEPT ![key.id].weight = sync.storeWeight]
             ELSE db
    /\ sync' = [sync EXCEPT !.keys = Tail(@), !.storeWeight = 0,
                            !.pc = IF Tail(sync.keys) = << >> THEN "idle"
                                   ELSE "read"]
    /\ UNCHANGED <<cache, active, lock, nextId, threshold, rep, adm,
                   budget, sel, hist, last, ser, affinityVars, req, adding,
                   retry, outbound, selr, expired, sweep>>

Adjust == \E i \in Adjusters : AdjustRead(i) \/ AdjustWrite(i)

Affinity == Adjust \/ (\E e \in sched : HashDeletion(e))

\* ------------------------------------------- proxy engine: the retry loop
\* an inbound request arrives: its messages, their size, the group's
\* enable_cache_hit
ProxyBegin(n, size, enable) ==
    /\ req.pc \in {"idle", "done"}
    /\ budget.requests > 0
    /\ budget' = [budget EXCEPT !.requests = @ - 1]
    /\ req' = [ReqIdle EXCEPT !.pc = "select", !.n = n, !.size = size,
                              !.enable = enable]
    /\ UNCHANGED <<db, cache, active, lock, nextId, threshold, rep, adm, sel,
                   hist, last, ser, affinityVars, adding, moreVars>>

\* step a of an attempt: select_with_affinity(group, body, enable_cache_hit)
ProxySelect ==
    /\ req.pc = "select"
    /\ SelectKeyWithCacheHit(Messages(req.n, FALSE), req.size, req.enable)
    /\ req' = IF sel'.err # "" THEN [req EXCEPT !.pc = "done"]
              ELSE [req EXCEPT !.pc = "upstream",
                               !.attempts = Append(@, sel'.id)]
    /\ UNCHANGED <<rep, budget, adding, moreVars>>

\* steps e and f of an attempt: the upstream answers; the attempt is
\* reported, and a retryable failure continues the loop while attempts
\* remain
ProxyUpstream(p, ok, msg) ==
    LET keyID == req.attempts[Len(req.attempts)] IN
    /\ req.pc = "upstream"
    /\ UpdateStatus(p, keyID, ok, msg, FALSE)
    /\ req' = [req EXCEPT !.pc =
                  IF ~ok /\ ~IsUnCounted(msg)
                     /\ Len(req.attempts) < MaxRetries + 1
                  THEN "select" ELSE "done"]

Proxy ==
    \/ \E n \in 1..MaxMsgs, size \in Sizes, enable \in BOOLEAN :
          ProxyBegin(n, size, enable)
    \/ ProxySelect
    \/ \E p \in Reporters, ok \in BOOLEAN :
          \E msg \in IF ok THEN {""} ELSE Msgs : ProxyUpstream(p, ok, msg)

\* the weight operations
WeightAdmin ==
    \/ \E keys \in AddInputs({0, 1, MaxWeight, MaxWeight + 1}) :
          AddKeysBegin(keys)
    \/ \E keyID \in KeyIds, weight \in {0, 1, MaxWeight, MaxWeight + 1} :
          UpdateKeyWeightBegin(keyID, weight)
    \/ \E keyHashes \in ValueSets, weight \in {0, 1, MaxWeight, MaxWeight + 1} :
          UpdateKeysWeightBegin(keyHashes, weight)
    \/ ResetKeysWeightBegin
    \/ \E keyID \in KeyIds : ResetSingleKeyWeightBegin(keyID)
    \/ AdminWrite
    \/ ResetKeysWeightFind
    \/ WeightHSet
    \/ WeightClear
    \/ AddKeyToStoreHSet
    \/ AddKeyToStoreLRem
    \/ AddKeyToStoreLPush
    \/ AdminCommit

\* status reports and bulk operations, all interleavings
Next == Report \/ Admin

Spec == Init /\ [][Next]_vars

\* the request path: key selection and status reports, all interleavings
NextRequests == SelectKey \/ Report

SpecRequests == Init /\ [][NextRequests]_vars

\* the status reports alone, all interleavings
SpecReports == Init /\ [][Report]_vars

\* status reports and the admin's clear of the request statistics
NextStats == Report \/ ClearRequestCount

SpecStats == Init /\ [][NextStats]_vars

\* concurrent SelectKey calls on a group of NKeys + 1 active keys
NextRotate == \E p \in Selectors : SelFirst(p) \/ SelNext(p) \/ SelPick(p)
                                   \/ SelLLen(p)

SpecRotate == InitRotate /\ [][NextRotate]_vars

\* status reports cut short by a restart of the process
NextLoad == Report \/ LoadKeysFromDB

SpecLoad == Init /\ [][NextLoad]_vars

\* key selection, with and without affinity, and the weight adjustments
NextSelect == SelectKey \/ SelectWithAffinity \/ Affinity

SpecSelect == Init /\ [][NextSelect]_vars

\* requests of a group with cache-hit enabled, and what they leave behind
NextAffinity == SelectWithCacheControl \/ Affinity

SpecAffinity == Init /\ [][NextAffinity]_vars

\* a manual validation that fails: the report disables the key at once
ForcedFailure ==
    \E p \in Reporters, k \in Created :
       UpdateStatus(p, k, FALSE, "upstream 500", TRUE) /\ UNCHANGED req

\* the steps of a failure report
FailureStep(p) ==
    \/ ReportRead(p)
    \/ ReportLock(p)
    \/ FailureHIncrBy(p)
    \/ FailureLRem(p)
    \/ FailureHSet(p)
    \/ FailureCommit(p)

\* SelectKey calls, store call by store call, beside failure reports
NextPicked ==
    \/ \E p \in Selectors : SelStep(p)
    \/ ForcedFailure
    \/ \E p \in Reporters : FailureStep(p)

SpecPicked == Init /\ [][NextPicked]_vars

\* requests of a group with cache-hit enabled while time passes: entries
\* expire, scheduled deletions fire, the one-minute sweep runs
NextExpiry ==
    \/ SelectWithExpiry
    \/ Affinity
    \/ \E hash \in Hashes : Expire(hash)
    \/ SweepCollect
    \/ SweepClean

SpecExpiry == Init /\ [][NextExpiry]_vars

\* requests of a group with cache-hit enabled, their weight adjustments and
\* the five-minute weight sync
NextSync ==
    \/ SelectWithCacheControl
    \/ Affinity
    \/ SyncFind
    \/ SyncHGetAll
    \/ SyncUpdate

SpecSync == Init /\ [][NextSync]_vars

\* status reports on a database that answers "database is locked" at times
NextBusy ==
    \/ Report
    \/ \E p \in Reporters : FailureLockBusy(p) \/ FailureCommitLocked(p)

SpecBusy == Init /\ [][NextBusy]_vars

\* bulk add over a store whose calls can fail
NextAddFails ==
    \/ \E keys \in AddInputs({DefaultWeight}) : AddKeysBegin(keys)
    \/ AddKeyToStoreHSet
    \/ AddKeyToStoreLRem
    \/ AddKeyToStoreLPush
    \/ AdminCommit
    \/ AddKeyToStoreFails

SpecAddFails == Init /\ [][NextAddFails]_vars

\* requests of a group with cache-hit enabled whose keys are being removed
NextGone ==
    \/ SelectWithCacheControl
    \/ Affinity
    \/ \E keyValues \in ValueSets : RemoveKeysBegin(keyValues)
    \/ \E op \in {"remove_invalid", "remove_all"} : RemoveKeysByStatusBegin(op)
    \/ AdminWrite
    \/ RemoveKeyFromStoreLRem
    \/ RemoveKeyFromStoreDelete
    \/ AdminCommit

SpecGone == Init /\ [][NextGone]_vars

\* a clean-up of the store by RemoveKeysFromStore, and the SelectKey calls
\* before, during and after it
NextStoreRemove ==
    \/ \E keyIDs \in SUBSET KeyIds : RemoveKeysFromStoreBegin(keyIDs)
    \/ RemoveKeysFromStoreDelete
    \/ SelectKey

SpecStoreRemove == Init /\ [][NextStoreRemove]_vars

\* requests of a group whose keys are being disabled
NextEvict ==
    \/ SelectWithAffinity
    \/ Affinity
    \/ ForcedFailure
    \/ \E p \in Reporters : FailureStep(p)

SpecEvict == Init /\ [][NextEvict]_vars

\* bulk remove, restore and update-weight over a store whose calls can fail
NextMirror ==
    \/ RestoreKeysBegin
    \/ \E keyValues \in ValueSets : RestoreMultipleKeysBegin(keyValues)
    \/ \E keyValues \in ValueSets : RemoveKeysBegin(keyValues)
    \/ \E op \in {"remove_invalid", "remove_all"} : RemoveKeysByStatusBegin(op)
    \/ \E keyHashes \in ValueSets, weight \in {1, MaxWeight} :
          UpdateKeysWeightBegin(keyHashes, weight)
    \/ AdminStep
    \/ WeightHSet
    \/ WeightClear
    \/ MirrorFails

SpecMirror == Init /\ [][NextMirror]_vars

\* step b of an attempt (spec 4.7): the upstream request is allocated with the
\* inbound request's headers and query string, the client's credential in
\* the carriers the client used
AllocateRequest(used, apiKey) ==
    /\ outbound.pc \in {"none", "rewritten"}
    /\ outbound' = [pc |-> "allocated", key |-> apiKey,
                    cred |-> [c \in Carriers |->
                                IF c \in used THEN ProxyCred(c) ELSE NoCred]]
    /\ UNCHANGED <<db, cache, active, lock, nextId, threshold, rep, adm, budget,
                   sel, hist, last, ser, affinityVars, req, adding, retry, selr,
                   tickerVars>>

\* OpenAIResponseChannel.ModifyRequest(req, apiKey, group)
ModifyRequest ==
    /\ outbound.pc = "allocated"
    /\ outbound' = [outbound EXCEPT !.pc = "rewritten",
                       !.cred["Authorization"] = Bearer(outbound.key)]
    /\ UNCHANGED <<db, cache, active, lock, nextId, threshold, rep, adm, budget,
                   sel, hist, last, ser, affinityVars, req, adding, retry, selr,
                   tickerVars>>

\* attempts of proxied requests: allocation of the upstream request for a
\* key of the group, then the channel's rewrite
NextChannel ==
    \/ \E used \in (SUBSET Carriers) \ {{}}, apiKey \in Created :
          AllocateRequest(used, apiKey)
    \/ ModifyRequest

SpecChannel == Init /\ [][NextChannel]_vars

\* executeTransactionWithRetry(operation): var err error; for i := range 3
RetryCall(p) ==
    /\ retry[p].pc = "idle"
    /\ retry' = [retry EXCEPT ![p].pc = "loop"]
    /\ UNCHANGED <<db, cache, active, lock, nextId, threshold, rep, adm, budget,
                   sel, hist, last, ser, affinityVars, req, adding, outbound, selr,
                   tickerVars>>

\* one pass of the loop: err = p.db.Transaction(operation); nil returns,
\* the locked class sleeps and continues, any other error breaks
RetryTransaction(p, out) ==
    LET r == retry[p] IN
    /\ r.pc = "loop"
    /\ retry' = [retry EXCEPT ![p] =
          LET n == [r EXCEPT !.err = out, !.outs = Append(@, out)] IN
          IF out = Nil THEN [n EXCEPT !.pc = "done", !.ret = Nil]
          ELSE IF IsLocked(out) THEN [n EXCEPT !.pc = "sleep"]
          ELSE [n EXCEPT !.pc = "done", !.ret = out]]
    /\ UNCHANGED <<db, cache, active, lock, nextId, threshold, rep, adm, budget,
                   sel, hist, last, ser, affinityVars, req, adding, outbound, selr,
                   tickerVars>>

\* time.Sleep(totalDelay); continue: the loop goes on while i < maxRetries,
\* after it the wrapper returns err
RetrySleep(p) ==
    LET r == retry[p] IN
    /\ r.pc = "sleep"
    /\ retry' = [retry EXCEPT ![p] =
          IF r.i + 1 < maxRetries
          THEN [r EXCEPT !.pc = "loop", !.i = @ + 1]
          ELSE [r EXCEPT !.pc = "done", !.i = @ + 1, !.ret = r.err]]
    /\ UNCHANGED <<db, cache, active, lock, nextId, threshold, rep, adm, budget,
                   sel, hist, last, ser, affinityVars, req, adding, outbound, selr,
                   tickerVars>>

RetryStep(p) ==
    \/ RetryCall(p)
    \/ \E out \in TxErrors : RetryTransaction(p, out)
    \/ RetrySleep(p)

\* the retry wrapper called by concurrent goroutines; a transaction and a
\* sleep always return
NextRetry == \E p \in Reporters : RetryStep(p)

SpecRetry ==
    Init /\ [][NextRetry]_vars /\ \A p \in Reporters : WF_vars(RetryStep(p))

\* bulk adds whose duplicate check and insert are separate steps, so that
\* two of them overlap; the keys come as text through AddMultipleKeys or as
\* KeyWithWeight values from a caller of processAndCreateKeysWithWeight
NextAdd ==
    \/ \E keysText \in AddInputs({0, 1, MaxWeight, MaxWeight + 1}) :
          AddMultipleKeys(keysText)
    \/ \E keys \in AddInputs({0, 1, MaxWeight, MaxWeight + 1}) :
          processAndCreateKeysWithWeight(keys)
    \/ \E i \in 1..Len(adding) : AddKeys(i)
    \/ AddKeyToStoreHSet
    \/ AddKeyToStoreLRem
    \/ AddKeyToStoreLPush
    \/ AdminCommit

SpecAdd == Init /\ [][NextAdd]_vars

\* weights: bulk add, the weight operations and the cache-hit adjustments
NextWeights == WeightAdmin \/ SelectWithAffinity \/ Affinity

SpecWeights == Init /\ [][NextWeights]_vars

\* the proxy's retry loop with the reports and adjustments it starts; a
\* deletion scheduled by a request sleeps for longer than the request lasts
NextProxy == Proxy \/ (\E p \in Reporters : ReportStep(p)) \/ Adjust

SpecProxy == Init /\ [][NextProxy]_vars

\* ================================================================ claims

Idle == adm.pc = "idle" /\ \A p \in Reporters : rep[p].pc = "idle"

\* C1: the set of ids in active_keys equals the set of keys of the group
\* whose status is active; stated for the states in which no report and no
\* bulk operation is in progress, where no step is half done
C1_AtRest == Idle => Range(active) = ActiveIdsOf(db)

\* C2: blacklist_threshold = T > 0, key K active with failure_count 0: once T
\* counted failure reports for K (no success in between, nothing else done to
\* K) have all finished, K is invalid and absent from active_keys
C2_ThresholdReportsBlacklist ==
    \A k \in KeyIds :
       (/\ hist[k].pure
        /\ threshold > 0
        /\ hist[k].inv = hist[k].fin
        /\ hist[k].fin >= threshold)
       => (db[k].status = StatusInvalid /\ k \notin Range(active))

\* the steps of report goroutine p: the call that spawns it and its own steps
StepOf(p) == rep'[p] # rep[p]

\* C3: after a success report on a key it found invalid has finished
\* (committed), the key is active with failure_count 0 in database and cache
\* and occurs exactly once in active_keys
C3_SuccessRecovers ==
    [][\A p \in Reporters :
         (SuccessCommit(p) /\ ~rep[p].isActive) =>
            LET k == rep[p].key IN
            /\ db'[k].status = StatusActive
            /\ db'[k].fc = 0
            /\ cache'[k].status = StatusActive
            /\ cache'[k].fc = 0
            /\ Count(active', k) = 1]_vars

C3_Witness ==
    /\ last.ok /\ ~last.isActive /\ last.outcome = "committed"
    /\ cache[last.key].status = StatusActive
    /\ cache[last.key].fc = 0
    /\ db[last.key].fc = 0
    /\ db[last.key].status = StatusActive
    /\ Count(active, last.key) = 1

\* C7: a counted failure report that commits on an active key makes it
\* invalid and leaves it out of active_keys iff it is forced or the
\* threshold is positive and reached by the count it wrote
C7_BlacklistRule ==
    [][\A p \in Reporters :
         (FailureCommit(p) /\ db[rep[p].key].status = StatusActive) =>
            LET k == rep[p].key IN
            /\ (db'[k].status = StatusInvalid)
                  <=> (rep[p].force
                       \/ (threshold > 0 /\ db'[k].fc >= threshold))
            /\ (db'[k].status = StatusInvalid)
                  => (k \notin Range(active')
                      /\ cache'[k].status = StatusInvalid)
            /\ (db'[k].status = StatusActive) => (active' = active)]_vars

C7_Witness ==
    /\ ~last.ok /\ last.outcome = "committed" /\ ~last.force
    /\ threshold = 2
    /\ db[last.key].status = StatusInvalid
    /\ db[last.key].fc = 2
    /\ last.key \notin Range(active)

\* C8: status and failure_count of every key in the database are those of
\* the reports applied one at a time in commit order
C8_SerialInCommitOrder ==
    \A k \in KeyIds :
       db[k].exists => (db[k].status = ser[k].status /\ db[k].fc = ser[k].fc)

\* C9: no step of a failure report with an uncounted error message changes
\* the database, a key hash or the active_keys list
C9_UncountedChangesNothing ==
    [][\A p \in Reporters :
         (/\ StepOf(p)
          /\ \/ (rep[p].pc # "idle" /\ ~rep[p].ok /\ IsUnCounted(rep[p].msg))
             \/ (rep[p].pc = "idle" /\ ~rep'[p].ok
                 /\ IsUnCounted(rep'[p].msg)))
         => UNCHANGED <<db, cache, active, lock>>]_vars

C9_Witness ==
    /\ ~last.ok /\ last.outcome = "uncounted"
    /\ db[last.key].status = StatusActive

\* C10: in the step that takes a key from invalid to active, in the database
\* or in its key hash, the failure_count there is 0, and it is 0 in the key
\* hash when the database row becomes active
C10_ActiveMeansZeroFailures ==
    [][\A k \in KeyIds :
         /\ (db[k].status = StatusInvalid /\ db'[k].status = StatusActive)
               => (db'[k].fc = 0 /\ cache'[k].fc = 0)
         /\ (cache[k].status = StatusInvalid /\ cache'[k].status = StatusActive)
               => cache'[k].fc = 0]_vars

\* C4: every key hash of the hot cache has 1 <= weight <= base_weight <= 1000
C4_WeightWithinBase ==
    \A k \in KeyIds :
       cache[k].present =>
          /\ 1 <= cache[k].weight
          /\ cache[k].weight <= cache[k].base
          /\ cache[k].base <= MaxWeight

C6_SelectFromActiveList ==
    [][SelectKey =>
         /\ (sel' = ErrNoActiveKeys) <=> (Len(active) = 0)
         /\ Len(active) > 0 => (sel'.err = "" /\ sel'.id \in Range(active))]_vars

C6_Witness ==
    /\ budget.selects < MaxSelects
    /\ Len(active) >= 2
    /\ sel.err = ""
    /\ sel.id \in Range(active)
    /\ sel.status = StatusActive

\* the messages a hash was computed from are, cache_control aside, the
\* messages of the body without its last dropCount ones
SameLeading(hash, messages, dropCount) ==
    /\ Len(hash) = Len(messages) - dropCount
    /\ \A i \in 1..Len(hash) : hash[i].text = messages[i].text

\* C11: with cache-hit enabled and the preconditions met, a request whose
\* messages without the last 2, 4 or 6 are, cache_control aside, the leading
\* messages for which an earlier request left an entry for key A, is routed
\* to A when the entry is still there and A is still active
C11_SameLeadingSameKey ==
    [][\A n \in MinCacheHitMessages..MaxMsgs, marked \in BOOLEAN :
         SelectWithAffinityOf(Messages(n, marked), MinCacheHitSize + 1, TRUE)
         => \A hash \in Hashes :
               (/\ hits[hash] # None
                /\ \E i \in 1..Len(DropCounts) :
                      SameLeading(hash, Messages(n, marked), DropCounts[i])
                /\ cache[hits[hash]].present
                /\ cache[hits[hash]].status = StatusActive)
               => (sel'.err = "" /\ sel'.id = hits[hash])]_vars

\* the hash SelectKeyWithCacheHit computes for the i-th drop count
HashAt(messages, i) == CalculatePromptHash(messages, DropCounts[i])

\* the loop of SelectKeyWithCacheHit gets as far as the i-th drop count: no
\* earlier one finds an entry of an active key
LoopReaches(messages, i) ==
    \A j \in 1..(i - 1) :
       \/ HashAt(messages, j) = NoPromptHash
       \/ hits[HashAt(messages, j)] = None
       \/ cache[hits[HashAt(messages, j)]].status # StatusActive

\* C12: when SelectKeyWithCacheHit comes upon an entry whose key is not
\* active, the entry is gone from the store and the bookkeeping map afterwards
\* (or is the new entry of the key now selected), an adjustment of +1 is
\* started for the key, and the request gets the active key of a later entry
\* or the result of SelectKey
C12_InactiveEntryEvicted ==
    [][\A n \in MinCacheHitMessages..MaxMsgs :
         SelectWithAffinityOf(Messages(n, FALSE), MinCacheHitSize + 1, TRUE)
         => \A i \in 1..Len(DropCounts) :
               LET messages == Messages(n, FALSE)
                   hash == HashAt(messages, i)
               IN
               (/\ hash # NoPromptHash
                /\ hits[hash] # None
                /\ cache[hits[hash]].status # StatusActive
                /\ LoopReaches(messages, i))
               => /\ \/ hits'[hash] = None
                     \/ (hash = HashAt(messages, 1) /\ hits'[hash] = sel'.id)
                  /\ records'[hash] = hits'[hash]
                  /\ \E a \in Adjusters :
                        /\ adj[a].pc = "idle"
                        /\ adj'[a].pc = "read"
                        /\ adj'[a].key = hits[hash]
                        /\ adj'[a].delta = 1
                  /\ \/ \E r \in SelectKeyResults(active, cache) :
                           sel' = r.key /\ active' = r.list
                     \/ \E j \in (i + 1)..Len(DropCounts) :
                           /\ HashAt(messages, j) # NoPromptHash
                           /\ hits[HashAt(messages, j)] = sel'.id
                           /\ sel'.status = StatusActive
                           /\ active' = active]_vars

C12_Witness ==
    /\ budget.selects = MaxSelects - 2
    /\ sel.err = ""
    /\ \E h \in Hashes : hits[h] = sel.id
    /\ \A h \in Hashes : hits[h] \in {None, sel.id}
    /\ \E k \in KeyIds \ {sel.id} :
          /\ cache[k].status = StatusInvalid
          /\ \E a \in Adjusters :
                adj[a].pc = "read" /\ adj[a].key = k /\ adj[a].delta = 1

\* C13: unless cache-hit is enabled, the messages serialize to more than
\* 4096 bytes and there are at least 3 of them, SelectKeyWithCacheHit does
\* what SelectKey does: no entry, no record, no weight adjustment, no
\* scheduled deletion.  Every step is such a SelectKey step, or else is not
\* a SelectKeyWithCacheHit call outside these preconditions
C13_PlainUnlessPreconditions ==
    [][\/ /\ UNCHANGED affinityVars
          /\ \E r \in SelectKeyResults(active, cache) :
                sel' = r.key /\ active' = r.list
       \/ \A n \in 1..MaxMsgs, size \in Sizes, enableCacheHit \in BOOLEAN :
             \/ (/\ enableCacheHit
                 /\ size > MinCacheHitSize
                 /\ n >= MinCacheHitMessages)
             \/ ~SelectWithAffinityOf(Messages(n, FALSE), size,
                                      enableCacheHit)]_vars

C13_Witness ==
    /\ budget.selects < MaxSelects
    /\ sel.err = ""
    /\ Len(active) >= 2
    /\ \A h \in Hashes : hits[h] = None /\ records[h] = None
    /\ \A a \in Adjusters : adj[a].pc = "idle"
    /\ sched = {}

WeightOps == {"update_weight", "update_weights", "reset_weight",
              "reset_weights"}

\* C14: when UpdateKeyWeight(K, w) returns successfully, GetRealTimeWeight(K)
\* is w, whatever weight adjustments for K were started before
C14_UpdateThenRealTimeWeight ==
    [][(AdminCommit /\ adm.op = "update_weight")
       => \A k \in adm.ids : GetRealTimeWeight(cache', k) = adm.w]_vars

\* C15: when a weight operation completes successfully, every key it
\* updated has weight = base_weight in database and cache, and no cache-hit
\* entry and no record refers to it
C15_WeightOpsLeaveBaseAndNoEntries ==
    [][(AdminCommit /\ adm.op \in WeightOps)
       => \A k \in adm.matched :
             /\ db'[k].weight = db'[k].base
             /\ cache'[k].weight = cache'[k].base
             /\ \A h \in Hashes : hits'[h] # k /\ records'[h] # k]_vars

\* C16: when a store call of the cache mirror step of a bulk remove, restore
\* or update-weight fails, the operation ends there with an error and the
\* database is as it was before the call
C16_MirrorFailureRollsBack ==
    [][MirrorFails
       => (adm'.pc = "idle" /\ adm'.err # "" /\ db' = db)]_vars

\* C17: when RestoreKeys completes successfully (and no status report is
\* half done), every key its Find returned as invalid is active with
\* failure_count 0 in database and cache and occurs exactly once in
\* active_keys, and every other key that is active in the database occurs
\* exactly once in active_keys
C17_RestoreMakesActive ==
    [][(/\ AdminCommit
        /\ adm.op = "restore"
        /\ \A p \in Reporters : rep[p].pc = "idle")
       => /\ \A k \in adm.ids :
                /\ db'[k].status = StatusActive
                /\ db'[k].fc = 0
                /\ cache'[k].status = StatusActive
                /\ cache'[k].fc = 0
                /\ Count(active', k) = 1
          /\ \A k \in Existing(db') \ adm.ids :
                db'[k].status = StatusActive
                => (cache'[k].status = StatusActive
                    /\ Count(active', k) = 1)]_vars

\* C18: no two keys of the group have the same key_hash, also when two bulk
\* adds that contain the same key value overlap
C18_KeyHashUnique ==
    \A j, k \in Existing(db) : j # k => db[j].hash # db[k].hash

\* C19: every key a bulk add creates has a weight in [1, 1000], whatever
\* weight the caller supplied
C19_AddedWeightInRange ==
    [][(AdminCommit /\ adm.op = "add")
       => \A k \in CreatedIds(adm) :
              db'[k].weight >= 1 /\ db'[k].weight <= MaxWeight]_vars
\* C20: UpdateKeyWeight and UpdateKeysWeight called with a weight below 1 or
\* above 1000 end at once with the weight error; the database rows, every
\* key hash and all cache-hit entries stay as they were
C20_BadWeightRejected ==
    [][\A weight \in {0, MaxWeight + 1} :
          (\/ \E keyID \in KeyIds : UpdateKeyWeightBegin(keyID, weight)
           \/ \E keyHashes \in ValueSets :
                  UpdateKeysWeightBegin(keyHashes, weight))
          => /\ adm'.pc = "idle" /\ adm'.err = ErrWeight
             /\ db' = db /\ cache' = cache
             /\ hits' = hits /\ records' = records]_vars

\* a weight update has been refused in a group that has keys and a cache-hit
\* entry
C20_Witness ==
    /\ adm.err = ErrWeight
    /\ Existing(db) # {}
    /\ \E h \in Hashes : hits[h] # None /\ records[h] # None
\* C21: a call of the retry wrapper runs the transaction at most 3 times, runs
\* it again only after an error of the 'database is locked' class, returns
\* at once on success or on any other error, returns nil on success and the
\* last error otherwise, and always returns
C21_RetryBounded ==
    /\ [](\A p \in Reporters :
            LET o == retry[p].outs IN
            /\ Len(o) <= 3
            /\ \A j \in 1..(Len(o) - 1) :
                  Contains(o[j], "database is locked")
            /\ (Len(o) > 0 /\ ~Contains(o[Len(o)], "database is locked"))
                  => retry[p].pc = "done"
            /\ retry[p].pc = "done"
                  => /\ Len(o) > 0
                     /\ retry[p].ret = o[Len(o)]
                     /\ (retry[p].ret # Nil => (Len(o) = 3 \/ ~Contains(
                                   retry[p].ret, "database is locked"))))
    /\ \A p \in Reporters : (retry[p].pc = "loop") ~> (retry[p].pc = "done")

\* a call has returned the locked error after three attempts while another
\* call has returned nil after a retry
C21_Witness ==
    \E p, q \in Reporters :
       /\ retry[p].pc = "done" /\ Len(retry[p].outs) = 3
       /\ retry[p].ret = ErrLockKey
       /\ retry[q].pc = "done" /\ Len(retry[q].outs) = 2
       /\ retry[q].ret = Nil
\* C22: when LoadKeysFromDB has completed, every database key has a key hash
\* with its status, weight and failure_count, and the ids in active_keys are
\* exactly the ids of the keys whose status is active
C22_LoadProjects ==
    [][LoadKeysFromDB
       => /\ \A k \in Existing(db') :
                /\ cache'[k].present
                /\ cache'[k].status = db'[k].status
                /\ cache'[k].weight = db'[k].weight
                /\ cache'[k].fc = db'[k].fc
          /\ Range(active') = ActiveIdsOf(db')]_vars
\* C23: after the channel's ModifyRequest the upstream request authenticates
\* with the selected key and carries the client's proxy key in none of the
\* carriers (Authorization, x-api-key, key, access_token)
C23_NoProxyKeyUpstream ==
    outbound.pc = "rewritten"
       => /\ outbound.cred["Authorization"] = Bearer(outbound.key)
          /\ \A c \in Carriers : outbound.cred[c].owner # "proxy"
\* the live cache-hit entries that refer to key k
LiveEntries(k) == {h \in Hashes : hits[h] = k}

\* C24: when no weight adjustment and no scheduled deletion is pending, the
\* weight of every key is max(1, base_weight - N), N the number of live
\* cache-hit entries that refer to the key
C24_WeightCountsEntries ==
    ((\A i \in Adjusters : adj[i].pc = "idle") /\ sched = {})
    => \A k \in Existing(db) :
          LET expected == cache[k].base - Cardinality(LiveEntries(k)) IN
          cache[k].weight = IF expected < 1 THEN 1 ELSE expected
\* C25: a failure report that is not forced takes a key from active to
\* invalid only if at least blacklist_threshold counted failure reports on
\* the key have been made since its failure_count was last reset to 0
C25_BlacklistNeedsThreshold ==
    [][\A p \in Reporters :
         LET k == rep[p].key IN
         (/\ FailureCommit(p) /\ ~rep[p].force
          /\ db[k].status = StatusActive /\ db'[k].status = StatusInvalid)
         => hist[k].since >= threshold]_vars
\* C26: when every report has finished, failure_count and status of every
\* key are the same in its key hash and in its database row
C26_CacheAgreesAfterReports ==
    (\A p \in Reporters : rep[p].pc = "idle")
    => \A k \in Existing(db) :
          cache[k].fc = db[k].fc /\ cache[k].status = db[k].status
\* the pairs a multi-key SelectKey collects from the present list and hashes
Collected ==
    CollectKeys(Rotate(active), cache, Head(active), 1, Len(active),
                <<[id |-> Head(active),
                   weight |-> SelectWeight(cache[Head(active)])]>>).keys

\* C27: for the collected pairs with total weight W and every pick r in
\* [0, W), the id selected is that of the one pair whose interval of the
\* cumulative weights holds r; a pair of weight w is selected for exactly w
\* picks, and every weight is at least 1
C27_PickFollowsWeights ==
    Len(active) >= 2 =>
       LET keys == Collected
           W == TotalWeight(keys)
           Before(j) == TotalWeight(SubSeq(keys, 1, j - 1))
           Holds(j, r) == Before(j) <= r /\ r < Before(j) + keys[j].weight
       IN /\ \A j \in 1..Len(keys) : keys[j].weight >= 1
          /\ \A r \in 0..(W - 1) :
                \E j \in 1..Len(keys) :
                   /\ Holds(j, r)
                   /\ WeightedPick(keys, r, 0) = keys[j].id
                   /\ \A i \in 1..Len(keys) : Holds(i, r) => i = j
          /\ \A j \in 1..Len(keys) :
                Cardinality({r \in 0..(W - 1) :
                    WeightedPick(keys, r, 0) = keys[j].id}) = keys[j].weight

\* a multi-key SelectKey has returned a key of a list whose keys have
\* different weights
C27_Witness ==
    /\ budget.selects < MaxSelects
    /\ Len(active) >= 2
    /\ sel.err = "" /\ sel.id \in Range(active)
    /\ Collected[1].weight # Collected[2].weight
\* C28: the pairs one multi-key SelectKey call collects have pairwise
\* distinct ids and the call rotates the list at most llen times, also with
\* other SelectKey calls rotating the same list
C28_CollectedDistinct ==
    \A p \in Selectors :
       LET keys == selr[p].keys IN
       /\ \A i, j \in 1..Len(keys) : i # j => keys[i].id # keys[j].id
       /\ selr[p].rot <= selr[p].listLen
\* C29: a key SelectKey returns has status active in the returned value,
\* also when a failure report disables the key between the Rotate that gave
\* its id and the HGetAll of its key hash
C29_ReturnedKeyActive ==
    \A p \in Selectors :
       (selr[p].pc = "done" /\ selr[p].res.err = "")
          => selr[p].res.status = StatusActive
\* C30: no key id occurs more than once in active_keys, for every
\* interleaving of success reports, restores and adds on the same key
C30_NoDuplicateIds == \A k \in KeyIds : Count(active, k) <= 1
\* C31: the key gets +1 once for the deletion of a matched entry.  The
\* record of an entry leaves p.cacheHitRecords only together with a +1 (the
\* scheduled deletion, the expiry sweep), so a scheduled deletion that finds
\* the record gone comes after the +1 and starts no further adjustment
C31_OneCreditPerDeletion ==
    [][\A e \in sched :
          (sched' = sched \ {e} /\ records[e.hash] = None) => adj' = adj]_vars
\* C32: the sweep removes from the store and from p.cacheHitRecords only
\* entries whose ExpTime has passed and gives the +1 to the key the removed
\* entry refers to, also when the entry is registered again with a fresh
\* expiry while the sweep runs
C32_SweepRemovesExpired ==
    [][(sweep.pc = "clean" /\ sweep' # sweep) =>
          \A h \in Hashes :
             /\ (hits[h] # None /\ hits'[h] = None) => h \in expired
             /\ (records[h] # None /\ records'[h] = None) =>
                   /\ h \in expired
                   /\ \E a \in Adjusters :
                         /\ adj'[a] # adj[a]
                         /\ adj'[a].key = records[h]
                         /\ adj'[a].delta = 1]_vars
\* a step of syncWeightsToDatabase
SyncSteps == <<sync'.pc, sync'.keys>> # <<sync.pc, sync.keys>>

C34_RemoveExact ==
    [][(adm.op \in {"remove", "remove_invalid"} /\ adm' # adm) =>
          LET targeted == IF adm.op = "remove" THEN adm.ids
                          ELSE InvalidIdsOf(db)
          IN
          /\ \A k \in KeyIds \ targeted :
                /\ db'[k] = db[k]
                /\ cache'[k] = cache[k]
                /\ Count(active', k) = Count(active, k)
          /\ (adm'.pc = "idle" /\ adm'.err = "") =>
                \A k \in targeted :
                   /\ ~db'[k].exists
                   /\ ~cache'[k].present
                   /\ Count(active', k) = 0]_vars
\* C35: one counted failure report on an active key, the only report so
\* far, leaves the cached failure_count one higher when its transaction
\* commits, also after retries on "database is locked", and leaves the
\* cached failure_count, the cached status and active_keys as they were
\* when the transaction finally fails
C35_OneIncrementPerReport ==
    [][\A p \in Reporters :
          LET r == rep[p] IN
          (/\ r.pc \in {"f_lock", "f_commit"}
           /\ rep'[p].pc = "idle"
           /\ db[r.key].status = StatusActive
           /\ budget.reports = MaxReports - 1)
          => IF last'.outcome = "committed"
             THEN cache'[r.key].fc = r.fcRead + 1
             ELSE /\ cache'[r.key].fc = r.fcRead
                  /\ cache'[r.key].status = StatusActive
                  /\ Count(active', r.key) = 1]_vars
\* C36: when AddKeys has failed while mirroring its chunk and the
\* transaction is rolled back, every key hash in the cache and every id in
\* active_keys belongs to a key that exists in the database
C36_NoOrphanAfterRollback ==
    (adm.pc = "idle" /\ adm.err = ErrStore) =>
       /\ \A k \in KeyIds : cache[k].present => db[k].exists
       /\ \A i \in 1..Len(active) : db[active[i]].exists
\* C37: once a remove has finished, no step already under way for a removed
\* key writes its key hash again or puts its id back into active_keys
C37_RemovedStaysGone ==
    [][\A k \in Created :
          (adm.pc = "idle" /\ ~db[k].exists) =>
             /\ ~cache[k].present => ~cache'[k].present
             /\ Count(active, k) = 0 => Count(active', k) = 0]_vars
\* C38: when ClearRequestCount completes, every key of the group has
\* failure_count 0 in its key hash as well as in its database row
C38_ClearResetsCacheToo ==
    [][ClearRequestCount =>
          \A k \in Existing(db') :
             /\ db'[k].fc = 0
             /\ cache'[k].present => cache'[k].fc = 0]_vars
\* C39: no step of a select call, sequential or interleaved with the steps
\* of other select calls, changes how often an id occurs in active_keys
C39_SelectKeepsMultiset ==
    [][\A k \in RotatedIds : Count(active', k) = Count(active, k)]_vars
\* two select calls under way that have rotated the list between them to an
\* order other than the loaded one
C39_Witness ==
    /\ \A p \in Selectors : selr[p].rot > 0
    /\ \E p \in Selectors : selr[p].pc = "loop"
    /\ active # LPushAll(<< >>, SortedSeq(RotatedIds))
\* C40: at every step of RemoveKeysFromStore(group, keyIDs), a key that is
\* not in keyIDs and is a member of active_keys stays a member, and its key
\* hash, if it has one, stays
C40_OnlyListedRemoved ==
    [][\A keyIDs \in SUBSET KeyIds :
          (\/ RemoveKeysFromStoreBegin(keyIDs)
           \/ (adm.ids = keyIDs /\ RemoveKeysFromStoreDelete))
          => \A k \in KeyIds \ keyIDs :
                /\ Count(active, k) > 0 => Count(active', k) > 0
                /\ cache[k].present => cache'[k].present]_vars
====
